---- MODULE Spec2Model ----
(***************************************************************************)
(* StaffShield Pro backend: the relational state the route handlers keep   *)
(* (users and the profile tables, jobs, job_assignments, payments,         *)
(* fleet_vehicles, vehicle_assignments, compliance_records) and the        *)
(* handlers of routes/auth.js, routes/jobs.js, routes/matching.js,         *)
(* routes/payments.js, the fleet router and the compliance router,         *)
(* statement by statement.                                                 *)
(*                                                                         *)
(* Database semantics (node-postgres on PostgreSQL, default isolation      *)
(* READ COMMITTED):                                                        *)
(*  - pool.query(...) is one autocommitted statement;                      *)
(*  - statements issued on a checked-out client between BEGIN and COMMIT   *)
(*    are kept in the request's private write set and reach the tables at  *)
(*    COMMIT; ROLLBACK discards them;                                      *)
(*  - UPDATE/DELETE take a row lock that is held until the transaction     *)
(*    ends; a statement that needs a locked row waits;                     *)
(*  - a statement inside a transaction may fail (constraint violation or   *)
(*    any other database error), which sends the handler to its catch      *)
(*    block.                                                               *)
(***************************************************************************)
EXTENDS Integers, Sequences, FiniteSets, TLC

\* ------------------------------------------------------------------ bounds
MaxVehicles == 1
MaxVehicleAssignments == 2
MaxAssignReqs == 2
MaxReturnReqs == 2
MaxJobs == 1
MaxNeeded == 2
MaxList == 2
MaxAgentsReqs == 2
MaxPayments == 1
MaxRecords == 2
MaxStatusReqs == 1
MaxBulkReqs == 2
MaxAssignmentRows == 2
MaxRegisterReqs == 2
MaxEmitted == 2
MaxMessages == 3
MaxConversationReqs == 1
MaxProfileReqs == 2
MaxPoolClients == 2
MaxTime == 2

\* ------------------------------------------------------------------ users
PPOs == {"p1", "p2"}
Agents == {"a1", "a2"}
Clients == {"c1", "c2"}
NULL == "null"

\* users.user_type
user_type(u) ==
  IF u \in PPOs THEN "ppo" ELSE IF u \in Agents THEN "agent" ELSE "client"

\* ------------------------------------------------------------------ schema
JobStatus == {"open", "assigned", "in_progress", "completed", "cancelled"}
VehicleStatus == {"available", "assigned", "maintenance", "retired"}
AssignmentStatus == {"assigned", "accepted", "declined", "completed", "no_show"}
RecordType == {"background_check", "drug_test", "training", "certification"}
RecordStatus == {"pending", "approved", "rejected", "expired"}

VARIABLES
  jobs,                 \* table jobs: sequence, id = index (SERIAL)
  job_assignments,      \* table job_assignments: set of rows, UNIQUE(job_id, agent_id)
  payments,             \* table payments: sequence, id = index
  agentsReq,            \* in-flight POST /:id/assign-agents requests
  fleet_vehicles,       \* table fleet_vehicles: sequence, id = index
  vehicle_assignments,  \* table vehicle_assignments: sequence, id = index
  assignReq,            \* in-flight POST /vehicles/:id/assign requests
  returnReq,            \* in-flight POST /vehicles/:id/return requests
  compliance_records,   \* table compliance_records: sequence, id = index
  agent_profiles,       \* table agent_profiles: set of rows
  statusReq,            \* in-flight PUT /records/:id/status requests
  bulkReq,              \* in-flight POST /records/bulk-update requests
  found,                \* the last response of GET /agents/:jobId
  users,                \* table users: set of rows, id and email UNIQUE
  ppo_profiles,         \* table ppo_profiles: user_id of each row
  client_profiles,      \* table client_profiles: user_id of each row
  registerReq,          \* in-flight POST /register requests
  emitted,              \* the job_status_update events sent to socket rooms
  scoreJob,             \* the jobs row the matching queries score
  scoreAgent,           \* the agent_profiles row the matching queries score
  matched,              \* the last response of GET /jobs or of the scored GET /agents/:jobId
  messages,             \* table messages: set of rows
  messageSeq,           \* the last id of messages_id_seq (SERIAL)
  conversationReq,      \* in-flight GET /conversation/:userId requests
  conversations,        \* the response of the request handled last, if it was GET /conversations
  profileReq,           \* in-flight PUT /profile requests
  pgClients             \* the clients of the connection pool

jobVars == <<jobs, job_assignments, payments, agentsReq>>
fleetVars == <<fleet_vehicles, vehicle_assignments, assignReq, returnReq>>
complianceVars == <<compliance_records, agent_profiles, statusReq, bulkReq>>

authVars == <<users, ppo_profiles, client_profiles, registerReq>>
socketVars == <<emitted>>
scoreVars == <<scoreJob, scoreAgent, matched>>
messageVars == <<messages, messageSeq, conversationReq, conversations>>
profileVars == <<profileReq, pgClients>>
otherVars == <<socketVars, scoreVars, messageVars, profileVars>>

\* what the fleet router never writes, what the job routers never write,
\* what the compliance router never writes, and what POST /register never
\* writes
nonFleetVars == <<jobVars, complianceVars, found, authVars, otherVars>>
nonJobVars == <<fleetVars, complianceVars, found, authVars, otherVars>>
nonComplianceVars == <<jobVars, fleetVars, found, authVars, otherVars>>
nonAuthVars ==
  <<jobVars, fleetVars, found, compliance_records, statusReq, bulkReq, otherVars>>

vars == <<jobVars, fleetVars, complianceVars, found, authVars, otherVars>>

AgentsReqs == 1..MaxAgentsReqs
AssignReqs == 1..MaxAssignReqs
ReturnReqs == 1..MaxReturnReqs
StatusReqs == 1..MaxStatusReqs
BulkReqs == 1..MaxBulkReqs
RegisterReqs == 1..MaxRegisterReqs
ConversationReqs == 1..MaxConversationReqs
ProfileReqs == 1..MaxProfileReqs
PoolClients == 1..MaxPoolClients

IdleReq == [pc |-> "idle"]

\* HTTP outcomes of the handlers
Ok == 200
BadRequest == 400
Forbidden == 403
NotFound == 404
Conflict == 409
ServerError == 500
Created == 201

\* ------------------------------------------------------------------- auth
Emails == {"e1", "e2"}

\* the ids the users of a role get (SERIAL: each id is given once)
UserIds(t) ==
  IF t = "ppo" THEN PPOs ELSE IF t = "agent" THEN Agents ELSE Clients

\* a nullable column or an optional parameter: SqlNull, or Some(x)
SqlNull == << >>
Some(x) == <<x>>

\* JavaScript n || d for a nullable number, string or array n
OrElse(n, d) == IF n = SqlNull THEN d ELSE n[1]

\* no matching request answered yet
NoMatch == [direction |-> "none", rows |-> {}]

InitSocketVars == emitted = {}

InitScoreVars ==
  /\ scoreJob = SqlNull
  /\ scoreAgent = SqlNull
  /\ matched = NoMatch

\* GET /conversations not answered by the request handled last
NoList == [user |-> NULL, rows |-> {}]

\* no message sent, no request in flight
InitMessageVars ==
  /\ messages = {}
  /\ messageSeq = 0
  /\ conversationReq = [r \in ConversationReqs |-> IdleReq]
  /\ conversations = NoList

\* a client of the pool that nobody has checked out
FreeClient == [st |-> "free"]

\* every client in the pool, no request in flight
InitProfileVars ==
  /\ profileReq = [r \in ProfileReqs |-> IdleReq]
  /\ pgClients = [c \in PoolClients |-> FreeClient]

\* the state of the routers a specification leaves alone: no event sent, no
\* matching request
InitRestVars ==
  /\ InitSocketVars
  /\ InitScoreVars
  /\ InitMessageVars
  /\ InitProfileVars

\* users, ppo_profiles and client_profiles once everybody is registered
InitAuthVars ==
  /\ users = {[id |-> u, email |-> u] : u \in PPOs \cup Agents \cup Clients}
  /\ ppo_profiles = PPOs
  /\ client_profiles = Clients
  /\ registerReq = [r \in RegisterReqs |-> IdleReq]

\* agent_profiles row as POST /register inserts it for an agent
\* (background_check_status DEFAULT 'pending')
NewAgentProfile(a) == [user_id |-> a, background_check_status |-> "pending"]

\* SELECT id FROM users WHERE email = $1
EmailRegistered(e) == \E x \in users : x.email = e

\* POST /register up to the INSERT INTO users: the field checks and the
\* email SELECT; 409 when the email is registered
RegisterCheck(r, e, t) ==
  /\ registerReq[r].pc = "idle"
  /\ \A q \in RegisterReqs : q < r => registerReq[q].pc # "idle"
  /\ t \in {"ppo", "agent", "client"}
  /\ registerReq' = [registerReq EXCEPT ![r] =
       IF EmailRegistered(e) THEN [pc |-> "done", res |-> Conflict]
       ELSE [pc |-> "checked", email |-> e, userType |-> t]]
  /\ UNCHANGED <<nonAuthVars, agent_profiles, users, ppo_profiles, client_profiles>>

\* INSERT INTO users (...) RETURNING id (pool.query, autocommitted); the
\* UNIQUE email makes it throw when another request registered the email
\* meanwhile: 500
RegisterInsertUser(r) ==
  LET req == registerReq[r]
      free == UserIds(req.userType) \ {x.id : x \in users}
  IN /\ req.pc = "checked"
     /\ IF EmailRegistered(req.email)
          THEN /\ registerReq' = [registerReq EXCEPT ![r] =
                    [pc |-> "done", res |-> ServerError]]
               /\ UNCHANGED users
          ELSE /\ free # {}
               /\ \E u \in free :
                    /\ users' = users \cup {[id |-> u, email |-> req.email]}
                    /\ registerReq' = [registerReq EXCEPT ![r] =
                         [pc |-> "user", id |-> u, userType |-> req.userType]]
     /\ UNCHANGED <<nonAuthVars, agent_profiles, ppo_profiles, client_profiles>>

\* INSERT INTO agent_profiles / ppo_profiles / client_profiles (user_id ...)
\* (pool.query, autocommitted), then the token and 201
RegisterInsertProfile(r) ==
  LET req == registerReq[r]
  IN /\ req.pc = "user"
     /\ agent_profiles' =
          IF req.userType = "agent"
            THEN agent_profiles \cup {NewAgentProfile(req.id)} ELSE agent_profiles
     /\ ppo_profiles' =
          IF req.userType = "ppo" THEN ppo_profiles \cup {req.id} ELSE ppo_profiles
     /\ client_profiles' =
          IF req.userType = "client" THEN client_profiles \cup {req.id} ELSE client_profiles
     /\ registerReq' = [registerReq EXCEPT ![r] =
          [pc |-> "done", res |-> Created, id |-> req.id]]
     /\ UNCHANGED <<nonAuthVars, users>>

\* the profile INSERT throws: the catch block answers 500
RegisterFail(r) ==
  /\ registerReq[r].pc = "user"
  /\ registerReq' = [registerReq EXCEPT ![r] =
       [pc |-> "done", res |-> ServerError, id |-> registerReq[r].id]]
  /\ UNCHANGED <<nonAuthVars, agent_profiles, users, ppo_profiles, client_profiles>>

RegisterRespond(r) ==
  /\ registerReq[r].pc = "done"
  /\ registerReq' = [registerReq EXCEPT ![r] = IdleReq]
  /\ UNCHANGED <<nonAuthVars, agent_profiles, users, ppo_profiles, client_profiles>>

\* ------------------------------------------------------------- compliance
\* no find-agents request has been answered
NoResponse == [user |-> NULL, jobId |-> 0, res |-> 0, agents |-> {}]

\* compliance tables once the agents are registered: no record, no request
InitComplianceVars ==
  /\ compliance_records = << >>
  /\ agent_profiles = {NewAgentProfile(a) : a \in Agents}
  /\ statusReq = [r \in StatusReqs |-> IdleReq]
  /\ bulkReq = [r \in BulkReqs |-> IdleReq]
  /\ found = NoResponse

\* POST /records: the caller's own record; status || 'pending'
AddRecord(u, t, st) ==
  /\ Len(compliance_records) < MaxRecords
  /\ t \in RecordType
  /\ compliance_records' = Append(compliance_records,
       [user_id |-> u, record_type |-> t, status |-> st])
  /\ UNCHANGED <<nonComplianceVars, agent_profiles, statusReq, bulkReq>>

\* compliance_records rows updated by a bulk transaction that has not ended
RecordLockedByBulk(i, r) ==
  \E q \in BulkReqs \ {r} : bulkReq[q].pc = "records" /\ i \in bulkReq[q].rows

\* agent_profiles rows updated by a bulk transaction that has not ended
ProfileLockedByBulk(u, r) ==
  \E q \in BulkReqs \ {r} : bulkReq[q].pc = "records" /\ u \in bulkReq[q].profiled

\* UPDATE agent_profiles SET background_check_status = $1 ... WHERE user_id = $2
SetBackgroundCheck(profiles, u, st) ==
  {IF x.user_id = u THEN [x EXCEPT !.background_check_status = st] ELSE x :
     x \in profiles}

\* PUT /records/:id/status, first statement (pool.query, autocommitted):
\* UPDATE compliance_records SET status = $1 ... WHERE id = $3 RETURNING *;
\* no row: 404; a row that is not a background check: 200
StatusWrite(r, i, st) ==
  /\ statusReq[r].pc = "idle"
  /\ \A q \in StatusReqs : q < r => statusReq[q].pc # "idle"
  /\ st \in RecordStatus
  /\ IF i \notin DOMAIN compliance_records
       THEN /\ statusReq' = [statusReq EXCEPT ![r] = [pc |-> "done", res |-> NotFound]]
            /\ UNCHANGED compliance_records
       ELSE /\ ~RecordLockedByBulk(i, 0)
            /\ compliance_records' = [compliance_records EXCEPT ![i].status = st]
            /\ statusReq' = [statusReq EXCEPT ![r] =
                 IF compliance_records[i].record_type = "background_check"
                   THEN [pc |-> "written", id |-> i,
                         user_id |-> compliance_records[i].user_id, status |-> st]
                   ELSE [pc |-> "done", res |-> Ok]]
  /\ UNCHANGED <<nonComplianceVars, agent_profiles, bulkReq>>

\* PUT /records/:id/status, second statement (pool.query, autocommitted):
\* UPDATE agent_profiles ...; then res.json
StatusProfile(r) ==
  /\ statusReq[r].pc = "written"
  /\ ~ProfileLockedByBulk(statusReq[r].user_id, 0)
  /\ agent_profiles' =
       SetBackgroundCheck(agent_profiles, statusReq[r].user_id, statusReq[r].status)
  /\ statusReq' = [statusReq EXCEPT ![r] = [pc |-> "done", res |-> Ok]]
  /\ UNCHANGED <<nonComplianceVars, compliance_records, bulkReq>>

\* the second statement throws: the catch block answers 500
StatusFail(r) ==
  /\ statusReq[r].pc = "written"
  /\ statusReq' = [statusReq EXCEPT ![r] = [pc |-> "done", res |-> ServerError]]
  /\ UNCHANGED <<nonComplianceVars, compliance_records, agent_profiles, bulkReq>>

StatusRespond(r) ==
  /\ statusReq[r].pc = "done"
  /\ statusReq' = [statusReq EXCEPT ![r] = IdleReq]
  /\ UNCHANGED <<nonComplianceVars, compliance_records, agent_profiles, bulkReq>>

\* recordIds arrays of the request body (non-empty; ids need not exist)
RecordIdLists == SUBSET (1..MaxRecords) \ {{}}

\* POST /records/bulk-update up to BEGIN: the array and status checks
BulkBegin(r, ids, st) ==
  /\ bulkReq[r].pc = "idle"
  /\ \A q \in BulkReqs : q < r => bulkReq[q].pc # "idle"
  /\ ids # {}
  /\ st \in RecordStatus
  /\ bulkReq' = [bulkReq EXCEPT ![r] = [pc |-> "begun", ids |-> ids, status |-> st]]
  /\ UNCHANGED <<nonComplianceVars, compliance_records, agent_profiles, statusReq>>

\* result.rows.filter(r => r.record_type === 'background_check'), as the
\* user_ids the loop will update
BackgroundCheckUsers(rows) ==
  {compliance_records[i].user_id :
     i \in {k \in rows : compliance_records[k].record_type = "background_check"}}

\* UPDATE compliance_records SET status = $1 ... WHERE id IN (...) RETURNING *
\* inside the transaction: waits for rows another transaction holds
BulkUpdateRecords(r) ==
  LET rows == bulkReq[r].ids \cap DOMAIN compliance_records
  IN /\ bulkReq[r].pc = "begun"
     /\ \A i \in rows : ~RecordLockedByBulk(i, r)
     /\ bulkReq' = [bulkReq EXCEPT ![r] =
          [pc |-> "records", status |-> bulkReq[r].status, rows |-> rows,
           todo |-> BackgroundCheckUsers(rows), profiled |-> {}]]
     /\ UNCHANGED <<nonComplianceVars, compliance_records, agent_profiles, statusReq>>

\* mutant: the profile UPDATE of the loop issued on the pool instead of the
\* transaction's client, so that it commits on its own
BulkUpdateProfileOnPool(r, u) ==
  /\ bulkReq[r].pc = "records"
  /\ u \in bulkReq[r].todo
  /\ ~ProfileLockedByBulk(u, r)
  /\ agent_profiles' = SetBackgroundCheck(agent_profiles, u, bulkReq[r].status)
  /\ bulkReq' = [bulkReq EXCEPT ![r].todo = @ \ {u}]
  /\ UNCHANGED <<nonComplianceVars, compliance_records, statusReq>>

\* one turn of the loop: UPDATE agent_profiles ... WHERE user_id = $2 inside
\* the transaction
BulkUpdateProfile(r, u) ==
  /\ bulkReq[r].pc = "records"
  /\ u \in bulkReq[r].todo
  /\ ~ProfileLockedByBulk(u, r)
  /\ bulkReq' = [bulkReq EXCEPT ![r].todo = @ \ {u}, ![r].profiled = @ \cup {u}]
  /\ UNCHANGED <<nonComplianceVars, compliance_records, agent_profiles, statusReq>>

\* the tables after the transaction of req commits
BulkEffectRecords(recs, req) ==
  [i \in DOMAIN recs |->
     IF i \in req.rows THEN [recs[i] EXCEPT !.status = req.status] ELSE recs[i]]

BulkEffectProfiles(profiles, req) ==
  {IF x.user_id \in req.profiled
     THEN [x EXCEPT !.background_check_status = req.status] ELSE x :
     x \in profiles}

\* the bulk request after its response: the response, the rows its UPDATE
\* returned and the profile updates its loop had completed
BulkFinished(req, code) ==
  [pc |-> "done", res |-> code,
   rows |-> IF req.pc = "begun" THEN {} ELSE req.rows,
   profiled |-> IF req.pc = "begun" THEN {} ELSE req.profiled]

\* COMMIT after the loop; res.json
BulkCommit(r) ==
  /\ bulkReq[r].pc = "records"
  /\ bulkReq[r].todo = {}
  /\ compliance_records' = BulkEffectRecords(compliance_records, bulkReq[r])
  /\ agent_profiles' = BulkEffectProfiles(agent_profiles, bulkReq[r])
  /\ bulkReq' = [bulkReq EXCEPT ![r] = BulkFinished(bulkReq[r], Ok)]
  /\ UNCHANGED <<nonComplianceVars, statusReq>>

\* a statement of the transaction throws (the record UPDATE or any profile
\* UPDATE): catch { ROLLBACK; throw }, outer catch answers 500
BulkFail(r) ==
  /\ \/ bulkReq[r].pc = "begun"
     \/ bulkReq[r].pc = "records" /\ bulkReq[r].todo # {}
  /\ bulkReq' = [bulkReq EXCEPT ![r] = BulkFinished(bulkReq[r], ServerError)]
  /\ UNCHANGED <<nonComplianceVars, compliance_records, agent_profiles, statusReq>>

BulkRespond(r) ==
  /\ bulkReq[r].pc = "done"
  /\ bulkReq' = [bulkReq EXCEPT ![r] = IdleReq]
  /\ UNCHANGED <<nonComplianceVars, compliance_records, agent_profiles, statusReq>>

\* the empty job and fleet tables
InitNonCompliance ==
  /\ jobs = << >>
  /\ job_assignments = {}
  /\ payments = << >>
  /\ agentsReq = [r \in AgentsReqs |-> IdleReq]
  /\ fleet_vehicles = << >>
  /\ vehicle_assignments = << >>
  /\ assignReq = [r \in AssignReqs |-> IdleReq]
  /\ returnReq = [r \in ReturnReqs |-> IdleReq]

InitCompliance == InitNonCompliance /\ InitComplianceVars /\ InitAuthVars /\ InitRestVars

\* the compliance router: records of the agents, reviewed by a PPO
NextCompliance ==
  \/ \E u \in Agents, t \in {"background_check", "training"} : AddRecord(u, t, "pending")
  \/ \E r \in StatusReqs, i \in 1..MaxRecords, st \in {"approved", "rejected"} :
       StatusWrite(r, i, st)
  \/ \E r \in StatusReqs : StatusProfile(r)
  \/ \E r \in StatusReqs : StatusFail(r)
  \/ \E r \in StatusReqs : StatusRespond(r)
  \/ \E r \in BulkReqs, ids \in RecordIdLists, st \in {"approved", "rejected"} :
       BulkBegin(r, ids, st)
  \/ \E r \in BulkReqs : BulkUpdateRecords(r)
  \/ \E r \in BulkReqs, u \in Agents : BulkUpdateProfile(r, u)
  \/ \E r \in BulkReqs : BulkCommit(r)
  \/ \E r \in BulkReqs : BulkFail(r)
  \/ \E r \in BulkReqs : BulkRespond(r)

SpecCompliance == InitCompliance /\ [][NextCompliance]_vars

\* the empty database after createTables(): nobody is registered
InitRegister ==
  /\ InitNonCompliance
  /\ compliance_records = << >>
  /\ agent_profiles = {}
  /\ statusReq = [r \in StatusReqs |-> IdleReq]
  /\ bulkReq = [r \in BulkReqs |-> IdleReq]
  /\ found = NoResponse
  /\ users = {}
  /\ ppo_profiles = {}
  /\ client_profiles = {}
  /\ registerReq = [r \in RegisterReqs |-> IdleReq]
  /\ InitRestVars

NextRegister ==
  \/ \E r \in RegisterReqs, e \in Emails, t \in {"ppo", "agent", "client"} :
       RegisterCheck(r, e, t)
  \/ \E r \in RegisterReqs : RegisterInsertUser(r)
  \/ \E r \in RegisterReqs : RegisterInsertProfile(r)
  \/ \E r \in RegisterReqs : RegisterFail(r)
  \/ \E r \in RegisterReqs : RegisterRespond(r)

SpecRegister == InitRegister /\ [][NextRegister]_vars

\* ------------------------------------------------------------------ fleet
\* fleet_vehicles row as POST /vehicles inserts it (status DEFAULT 'available')
NewVehicle(p) == [ppo_id |-> p, status |-> "available"]

\* the fleet_vehicles row lock: held by a transaction from its
\* UPDATE fleet_vehicles statement until COMMIT / ROLLBACK
VehicleLocked(v) ==
  \/ \E r \in AssignReqs : assignReq[r].pc = "updated" /\ assignReq[r].vehicleId = v
  \/ \E r \in ReturnReqs : returnReq[r].pc = "updated" /\ returnReq[r].vehicleId = v

\* the vehicle_assignments row lock taken by the return handler's first UPDATE
AssignmentLocked(i) ==
  \E r \in ReturnReqs :
    returnReq[r].pc \in {"closed", "updated"} /\ returnReq[r].assignmentId = i

\* POST /vehicles
AddVehicle(p) ==
  /\ Len(fleet_vehicles) < MaxVehicles
  /\ fleet_vehicles' = Append(fleet_vehicles, NewVehicle(p))
  /\ UNCHANGED <<nonFleetVars, vehicle_assignments, assignReq, returnReq>>

\* PUT /vehicles/:id : ownership SELECT (ppo_id never changes), then one
\* autocommitted UPDATE that writes the status of the request body
UpdateVehicle(p, v, st) ==
  /\ v \in DOMAIN fleet_vehicles
  /\ fleet_vehicles[v].ppo_id = p
  /\ ~VehicleLocked(v)
  /\ fleet_vehicles' = [fleet_vehicles EXCEPT ![v].status = st]
  /\ UNCHANGED <<nonFleetVars, vehicle_assignments, assignReq, returnReq>>

\* SELECT id FROM fleet_vehicles WHERE id = $1 AND ppo_id = $2 AND status = 'available'
VehicleAvailableFor(v, p) ==
  /\ v \in DOMAIN fleet_vehicles
  /\ fleet_vehicles[v].ppo_id = p
  /\ fleet_vehicles[v].status = "available"

\* SELECT id FROM jobs WHERE id = $1 AND ppo_id = $2
JobOwnedByPpo(j, p) ==
  /\ j \in DOMAIN jobs
  /\ jobs[j].ppo_id = p

\* the assign requests on vehicle v that are between their SELECTs and the
\* end of their transaction
InFlightAssign(v) ==
  {r \in AssignReqs : assignReq[r].pc \in {"begun", "inserted", "updated"}
                      /\ assignReq[r].vehicleId = v}

InFlightAssignAll ==
  {r \in AssignReqs : assignReq[r].pc \in {"begun", "inserted", "updated"}}

\* a request is served by the first free slot
FreeAssignSlot(r) ==
  /\ assignReq[r].pc = "idle"
  /\ \A q \in AssignReqs : q < r => assignReq[q].pc # "idle"

\* POST /vehicles/:id/assign, up to BEGIN: the two SELECTs.  The job SELECT
\* reads only jobs, the vehicle SELECT only fleet_vehicles; after them the
\* handler uses vehicleId, jobId and agentId only.
\* conc (history): the assign requests on this vehicle whose execution
\* overlaps this one and whose response is still displayed.
AssignCheck(r, p, v, j, a) ==
  /\ FreeAssignSlot(r)
  /\ Len(vehicle_assignments) + Cardinality(InFlightAssignAll) < MaxVehicleAssignments
  /\ IF VehicleAvailableFor(v, p) /\ JobOwnedByPpo(j, p)
       THEN assignReq' =
              [q \in AssignReqs |->
                 IF q = r
                   THEN [pc |-> "begun", vehicleId |-> v, jobId |-> j,
                         agentId |-> a, conc |-> InFlightAssign(v)]
                 ELSE IF q \in InFlightAssign(v)
                   THEN [assignReq[q] EXCEPT !.conc = @ \cup {r}]
                 ELSE assignReq[q]]
       ELSE assignReq' = [assignReq EXCEPT ![r] =
              [pc |-> "done", vehicleId |-> v, conc |-> {}, res |-> NotFound]]
  /\ UNCHANGED <<nonFleetVars, fleet_vehicles, vehicle_assignments, returnReq>>

\* mutant: the INSERT issued on the pool instead of the transaction's client,
\* so that the row is committed on its own
AssignInsertAutocommit(r) ==
  /\ assignReq[r].pc = "begun"
  /\ assignReq' = [assignReq EXCEPT ![r].pc = "inserted"]
  /\ vehicle_assignments' = Append(vehicle_assignments,
       [vehicle_id |-> assignReq[r].vehicleId, job_id |-> assignReq[r].jobId,
        agent_id |-> assignReq[r].agentId, returned |-> FALSE])
  /\ UNCHANGED <<nonFleetVars, fleet_vehicles, returnReq>>

\* INSERT INTO vehicle_assignments (...) inside the transaction
AssignInsert(r) ==
  /\ assignReq[r].pc = "begun"
  /\ assignReq' = [assignReq EXCEPT ![r].pc = "inserted"]
  /\ UNCHANGED <<nonFleetVars, fleet_vehicles, vehicle_assignments, returnReq>>

\* UPDATE fleet_vehicles SET status = 'assigned' WHERE id = $2 inside the
\* transaction; waits for the row lock
AssignUpdate(r) ==
  /\ assignReq[r].pc = "inserted"
  /\ ~VehicleLocked(assignReq[r].vehicleId)
  /\ assignReq' = [assignReq EXCEPT ![r].pc = "updated"]
  /\ UNCHANGED <<nonFleetVars, fleet_vehicles, vehicle_assignments, returnReq>>

\* the rows a committed assign transaction leaves
AssignEffectVehicles(fv, v) == [fv EXCEPT ![v].status = "assigned"]

AssignEffectRows(va, req) ==
  Append(va, [vehicle_id |-> req.vehicleId, job_id |-> req.jobId,
              agent_id |-> req.agentId, returned |-> FALSE])

\* statements of its transaction a request has completed
StmtsDone(req) ==
  IF req.pc = "begun" THEN 0
  ELSE IF req.pc \in {"inserted", "closed"} THEN 1
  ELSE 2

\* the request after its response: the response, the overlap history and
\* the number of statements its transaction had completed
Finished(req, code) ==
  [pc |-> "done", vehicleId |-> req.vehicleId, conc |-> req.conc, res |-> code,
   stmts |-> StmtsDone(req)]

\* COMMIT; res.json('Vehicle assigned successfully')
AssignCommit(r) ==
  /\ assignReq[r].pc = "updated"
  /\ vehicle_assignments' = AssignEffectRows(vehicle_assignments, assignReq[r])
  /\ fleet_vehicles' = AssignEffectVehicles(fleet_vehicles, assignReq[r].vehicleId)
  /\ assignReq' = [assignReq EXCEPT ![r] = Finished(assignReq[r], Ok)]
  /\ UNCHANGED <<nonFleetVars, returnReq>>

\* a statement of the transaction throws: catch { ROLLBACK; throw } and the
\* outer catch answers 500
AssignFail(r) ==
  /\ assignReq[r].pc \in {"begun", "inserted"}
  /\ assignReq' = [assignReq EXCEPT ![r] = Finished(assignReq[r], ServerError)]
  /\ UNCHANGED <<nonFleetVars, fleet_vehicles, vehicle_assignments, returnReq>>

\* the response has been delivered; the slot serves the next request
AssignRespond(r) ==
  /\ assignReq[r].pc = "done"
  /\ assignReq' = [q \in AssignReqs |->
                    IF q = r THEN IdleReq
                    ELSE IF assignReq[q].pc = "idle" THEN assignReq[q]
                    ELSE [assignReq[q] EXCEPT !.conc = @ \ {r}]]
  /\ UNCHANGED <<nonFleetVars, fleet_vehicles, vehicle_assignments, returnReq>>

\* mutant: the PPO branch of the SELECT without the join on the owner
OpenAssignmentsForAnyPpo(v, u) ==
  {i \in DOMAIN vehicle_assignments :
     /\ vehicle_assignments[i].vehicle_id = v
     /\ ~vehicle_assignments[i].returned
     /\ IF user_type(u) = "ppo"
          THEN v \in DOMAIN fleet_vehicles
          ELSE vehicle_assignments[i].agent_id = u}

\* the open assignments the return handler's SELECT finds for the caller
OpenAssignmentsFor(v, u) ==
  {i \in DOMAIN vehicle_assignments :
     /\ vehicle_assignments[i].vehicle_id = v
     /\ ~vehicle_assignments[i].returned
     /\ IF user_type(u) = "ppo"
          THEN v \in DOMAIN fleet_vehicles /\ fleet_vehicles[v].ppo_id = u
          ELSE vehicle_assignments[i].agent_id = u}

\* POST /vehicles/:id/return, up to BEGIN: the SELECT; rows[0] is any of the
\* rows found (the query has no ORDER BY)
ReturnCheck(r, u, v) ==
  /\ returnReq[r].pc = "idle"
  /\ \A q \in ReturnReqs : q < r => returnReq[q].pc # "idle"
  /\ IF OpenAssignmentsFor(v, u) = {}
       THEN returnReq' = [returnReq EXCEPT ![r] =
              [pc |-> "done", res |-> NotFound]]
       ELSE \E i \in OpenAssignmentsFor(v, u) :
              returnReq' = [returnReq EXCEPT ![r] =
                [pc |-> "begun", user |-> u, vehicleId |-> v, assignmentId |-> i]]
  /\ UNCHANGED <<nonFleetVars, fleet_vehicles, vehicle_assignments, assignReq>>

\* UPDATE vehicle_assignments SET returned_at = CURRENT_TIMESTAMP ... WHERE id = $4
ReturnClose(r) ==
  /\ returnReq[r].pc = "begun"
  /\ ~AssignmentLocked(returnReq[r].assignmentId)
  /\ returnReq' = [returnReq EXCEPT ![r].pc = "closed"]
  /\ UNCHANGED <<nonFleetVars, fleet_vehicles, vehicle_assignments, assignReq>>

\* UPDATE fleet_vehicles SET status = 'available' WHERE id = $2
ReturnUpdate(r) ==
  /\ returnReq[r].pc = "closed"
  /\ ~VehicleLocked(returnReq[r].vehicleId)
  /\ returnReq' = [returnReq EXCEPT ![r].pc = "updated"]
  /\ UNCHANGED <<nonFleetVars, fleet_vehicles, vehicle_assignments, assignReq>>

\* COMMIT; res.json('Vehicle returned successfully')
ReturnCommit(r) ==
  /\ returnReq[r].pc = "updated"
  /\ vehicle_assignments' =
       [vehicle_assignments EXCEPT ![returnReq[r].assignmentId].returned = TRUE]
  /\ fleet_vehicles' =
       [fleet_vehicles EXCEPT ![returnReq[r].vehicleId].status = "available"]
  /\ returnReq' = [returnReq EXCEPT ![r] = [pc |-> "done", res |-> Ok]]
  /\ UNCHANGED <<nonFleetVars, assignReq>>

\* a statement of the return transaction throws: ROLLBACK, 500
ReturnFail(r) ==
  /\ returnReq[r].pc \in {"begun", "closed"}
  /\ returnReq' = [returnReq EXCEPT ![r] =
       [pc |-> "done", res |-> ServerError, stmts |-> StmtsDone(returnReq[r])]]
  /\ UNCHANGED <<nonFleetVars, fleet_vehicles, vehicle_assignments, assignReq>>

ReturnRespond(r) ==
  /\ returnReq[r].pc = "done"
  /\ returnReq' = [returnReq EXCEPT ![r] = IdleReq]
  /\ UNCHANGED <<nonFleetVars, fleet_vehicles, vehicle_assignments, assignReq>>

\* jobs as POST / and POST /:id/assign-ppo leave them: one job per PPO
FleetJobs ==
  << [client_id |-> "c1", ppo_id |-> "p1", status |-> "assigned",
      agents_needed |-> 1, start_date |-> 10, end_date |-> 14],
     [client_id |-> "c2", ppo_id |-> "p2", status |-> "assigned",
      agents_needed |-> 2, start_date |-> 13, end_date |-> 15] >>

InitFleet ==
  /\ jobs = FleetJobs
  /\ job_assignments = {}
  /\ payments = << >>
  /\ agentsReq = [r \in AgentsReqs |-> IdleReq]
  /\ fleet_vehicles = << >>
  /\ vehicle_assignments = << >>
  /\ assignReq = [r \in AssignReqs |-> IdleReq]
  /\ returnReq = [r \in ReturnReqs |-> IdleReq]
  /\ InitComplianceVars
  /\ InitAuthVars
  /\ InitRestVars

NextFleet ==
  \/ \E p \in PPOs : AddVehicle(p)
  \/ \E p \in PPOs, v \in 1..MaxVehicles, st \in VehicleStatus : UpdateVehicle(p, v, st)
  \/ \E r \in AssignReqs, p \in PPOs, v \in 1..MaxVehicles, j \in DOMAIN jobs, a \in Agents :
       AssignCheck(r, p, v, j, a)
  \/ \E r \in AssignReqs : AssignInsert(r)
  \/ \E r \in AssignReqs : AssignUpdate(r)
  \/ \E r \in AssignReqs : AssignCommit(r)
  \/ \E r \in AssignReqs : AssignFail(r)
  \/ \E r \in AssignReqs : AssignRespond(r)
  \/ \E r \in ReturnReqs, u \in PPOs \cup Agents, v \in 1..MaxVehicles : ReturnCheck(r, u, v)
  \/ \E r \in ReturnReqs : ReturnClose(r)
  \/ \E r \in ReturnReqs : ReturnUpdate(r)
  \/ \E r \in ReturnReqs : ReturnCommit(r)
  \/ \E r \in ReturnReqs : ReturnFail(r)
  \/ \E r \in ReturnReqs : ReturnRespond(r)

SpecFleet == InitFleet /\ [][NextFleet]_vars

\* ------------------------------------------------------------------ jobs
\* agentIds arrays of the request body (users ids; repeats allowed)
RECURSIVE SeqsUpTo(_, _)
SeqsUpTo(S, n) ==
  IF n = 0 THEN {<< >>}
  ELSE LET shorter == SeqsUpTo(S, n - 1)
       IN shorter \cup {Append(q, x) : q \in {t \in shorter : Len(t) = n - 1}, x \in S}

AgentLists == SeqsUpTo(Agents, MaxList)

\* jobs row as POST / inserts it (status DEFAULT 'open', ppo_id NULL)
NewJob(c, n, w) ==
  [client_id |-> c, ppo_id |-> NULL, status |-> "open",
   agents_needed |-> n, start_date |-> w[1], end_date |-> w[2]]

\* transaction phases of assign-agents
AgentsInTx == {"deleting", "inserting", "updated"}

\* agentIds already inserted by the transaction of request req
Inserted(req) == {req.agentIds[i] : i \in 1..(req.k - 1)}

\* the jobs row lock: held from UPDATE jobs until the transaction ends
JobLocked(j) ==
  \E r \in AgentsReqs : agentsReq[r].pc = "updated" /\ agentsReq[r].jobId = j

\* a job_assignments row deleted by a transaction that has not ended
RowLockedByOther(j, a, r) ==
  \E q \in AgentsReqs \ {r} :
    /\ agentsReq[q].pc \in {"inserting", "updated"}
    /\ agentsReq[q].jobId = j
    /\ a \in agentsReq[q].del

\* a (job_id, agent_id) key inserted by a transaction that has not ended
KeyPendingByOther(j, a, r) ==
  \E q \in AgentsReqs \ {r} :
    /\ agentsReq[q].pc \in {"inserting", "updated"}
    /\ agentsReq[q].jobId = j
    /\ a \in Inserted(agentsReq[q])

\* agent ids of the committed job_assignments rows of job j
AgentsOfJob(j) == {row.agent_id : row \in {x \in job_assignments : x.job_id = j}}

\* POST / (routes/jobs.js)
CreateJob(c, n, w) ==
  /\ Len(jobs) < MaxJobs
  /\ jobs' = Append(jobs, NewJob(c, n, w))
  /\ UNCHANGED <<job_assignments, payments, agentsReq, nonJobVars>>

\* what POST /:id/assign-ppo requires before its UPDATE: the two SELECTs
AssignPpoAllowed(c, j, ppoId) ==
  /\ j \in DOMAIN jobs
  /\ jobs[j].client_id = c
  /\ user_type(ppoId) = "ppo"

\* POST /:id/assign-ppo.  The SELECTs read client_id and user_type, which no
\* handler writes, so they and the UPDATE form one step.  A rejected request
\* (404) changes nothing.
AssignPpo(c, j, ppoId) ==
  /\ AssignPpoAllowed(c, j, ppoId)
  /\ ~JobLocked(j)
  /\ jobs' = [jobs EXCEPT ![j].ppo_id = ppoId, ![j].status = "assigned"]
  /\ UNCHANGED <<job_assignments, payments, agentsReq, nonJobVars>>

\* the authQuery of PUT /:id/status
StatusAuth(u, j) ==
  /\ j \in DOMAIN jobs
  /\ \/ user_type(u) = "client" /\ jobs[j].client_id = u
     \/ user_type(u) = "ppo" /\ jobs[j].ppo_id = u

\* PUT /:id/status: status must be one of the five names; then authQuery;
\* then UPDATE jobs SET status = $1
UpdateStatus(u, j, st) ==
  /\ st \in JobStatus
  /\ StatusAuth(u, j)
  /\ ~JobLocked(j)
  /\ jobs' = [jobs EXCEPT ![j].status = st]
  /\ UNCHANGED <<job_assignments, payments, agentsReq, nonJobVars>>

\* POST /create-intent (routes/payments.js): the client's own job
CreateIntent(c, j) ==
  /\ Len(payments) < MaxPayments
  /\ j \in DOMAIN jobs
  /\ jobs[j].client_id = c
  /\ payments' = Append(payments, [job_id |-> j, status |-> "pending",
                                   processed_at |-> SqlNull])
  /\ UNCHANGED <<jobs, job_assignments, agentsReq, nonJobVars>>

\* UPDATE jobs SET status = 'assigned' WHERE id = $2 AND status = 'open'
WebhookJobStatus(st) == IF st = "open" THEN "assigned" ELSE st

\* UPDATE payments SET status = 'completed', processed_at =
\* CURRENT_TIMESTAMP WHERE stripe_payment_intent_id = $2
SucceededPayments(ps, i, now) ==
  [ps EXCEPT ![i].status = "completed", ![i].processed_at = Some(now)]

\* the UPDATE of jobs for the job of intent i
SucceededJobs(js, ps, i) ==
  [js EXCEPT ![ps[i].job_id].status = WebhookJobStatus(@)]

\* CURRENT_TIMESTAMP is not before any timestamp already stored
NotBeforeStored(now) ==
  \A k \in DOMAIN payments :
    IF payments[k].processed_at = SqlNull THEN TRUE
    ELSE payments[k].processed_at[1] <= now

\* POST /webhook, payment_intent.succeeded for intent i at time now
\* (metadata.jobId is the job of the intent)
WebhookSucceeded(i, now) ==
  /\ i \in DOMAIN payments
  /\ NotBeforeStored(now)
  /\ ~JobLocked(payments[i].job_id)
  /\ payments' = SucceededPayments(payments, i, now)
  /\ jobs' = SucceededJobs(jobs, payments, i)
  /\ UNCHANGED <<job_assignments, agentsReq, nonJobVars>>

\* POST /webhook, payment_intent.payment_failed
WebhookFailed(i) ==
  /\ i \in DOMAIN payments
  /\ payments' = [payments EXCEPT ![i].status = "failed"]
  /\ UNCHANGED <<jobs, job_assignments, agentsReq, nonJobVars>>

\* a request is served by the first free slot
FreeAgentsSlot(r) ==
  /\ agentsReq[r].pc = "idle"
  /\ \A q \in AgentsReqs : q < r => agentsReq[q].pc # "idle"

\* mutant: the capacity check off by one
TooManyAgentsOffByOne(L, j) == Len(L) > jobs[j].agents_needed + 1

\* agentIds.length > job.agents_needed
TooManyAgents(L, j) == Len(L) > jobs[j].agents_needed

\* the outcome of the checks of POST /:id/assign-agents before pool.connect()
AgentsCheckResult(p, j, L) ==
  IF Len(L) = 0 THEN BadRequest
  ELSE IF ~JobOwnedByPpo(j, p) THEN NotFound
  ELSE IF TooManyAgents(L, j) THEN BadRequest
  ELSE Ok

\* POST /:id/assign-agents up to the start of DELETE FROM job_assignments:
\* the checks read jobs.ppo_id and jobs.agents_needed only; the DELETE works on
\* the rows of the job it sees when it starts (snap)
AgentsCheck(r, p, j, L) ==
  /\ FreeAgentsSlot(r)
  /\ agentsReq' = [agentsReq EXCEPT ![r] =
       IF AgentsCheckResult(p, j, L) = Ok
         THEN [pc |-> "deleting", jobId |-> j, agentIds |-> L, k |-> 1,
               del |-> AgentsOfJob(j)]
         ELSE [pc |-> "done", res |-> AgentsCheckResult(p, j, L),
               reason |-> IF Len(L) = 0 THEN "empty"
                          ELSE IF ~JobOwnedByPpo(j, p) THEN "owner" ELSE "count"]]
  /\ UNCHANGED <<jobs, job_assignments, payments, nonJobVars>>

\* mutant: the DELETE issued on the pool instead of the transaction's client,
\* so that it commits on its own
AgentsDeleteAutocommit(r) ==
  /\ agentsReq[r].pc = "deleting"
  /\ \A a \in agentsReq[r].del : ~RowLockedByOther(agentsReq[r].jobId, a, r)
  /\ job_assignments' =
       {x \in job_assignments :
          ~(x.job_id = agentsReq[r].jobId /\ x.agent_id \in agentsReq[r].del)}
  /\ agentsReq' = [agentsReq EXCEPT ![r].pc = "inserting", ![r].del = {}]
  /\ UNCHANGED <<jobs, payments, nonJobVars>>

\* DELETE FROM job_assignments WHERE job_id = $1 completes: it waits for rows
\* locked by another transaction and holds the deleted rows until COMMIT
AgentsDelete(r) ==
  /\ agentsReq[r].pc = "deleting"
  /\ \A a \in agentsReq[r].del : ~RowLockedByOther(agentsReq[r].jobId, a, r)
  /\ agentsReq' = [agentsReq EXCEPT ![r].pc = "inserting"]
  /\ UNCHANGED <<jobs, job_assignments, payments, nonJobVars>>

\* UNIQUE(job_id, agent_id): the key is already in the table for this
\* transaction (a committed row it has not deleted, or its own insert)
UniqueViolation(req, a) ==
  \/ a \in Inserted(req)
  \/ a \in AgentsOfJob(req.jobId) /\ a \notin req.del

\* the request after a failed transaction: ROLLBACK, then 500
Failed(req, why) == [pc |-> "done", res |-> ServerError, reason |-> why]

\* INSERT INTO job_assignments (job_id, agent_id) VALUES ($1, $2) for
\* agentIds[k]; waits while another transaction holds the key
AgentsInsert(r) ==
  LET req == agentsReq[r]
      a == req.agentIds[req.k]
  IN /\ req.pc = "inserting"
     /\ req.k <= Len(req.agentIds)
     /\ ~RowLockedByOther(req.jobId, a, r)
     /\ ~KeyPendingByOther(req.jobId, a, r)
     /\ agentsReq' = [agentsReq EXCEPT ![r] =
          IF UniqueViolation(req, a) THEN Failed(req, "unique")
          ELSE [req EXCEPT !.k = @ + 1]]
     /\ UNCHANGED <<jobs, job_assignments, payments, nonJobVars>>

\* UPDATE jobs SET status = 'in_progress' WHERE id = $2, after the loop
AgentsUpdate(r) ==
  /\ agentsReq[r].pc = "inserting"
  /\ agentsReq[r].k > Len(agentsReq[r].agentIds)
  /\ ~JobLocked(agentsReq[r].jobId)
  /\ agentsReq' = [agentsReq EXCEPT ![r].pc = "updated"]
  /\ UNCHANGED <<jobs, job_assignments, payments, nonJobVars>>

\* job_assignments after the transaction of req commits: the deleted rows
\* go, the inserted rows appear with status DEFAULT 'assigned'
CommittedAssignments(rows, req) ==
  {x \in rows : ~(x.job_id = req.jobId /\ x.agent_id \in req.del)}
  \cup {[job_id |-> req.jobId, agent_id |-> a, status |-> "assigned"] :
          a \in Inserted(req)}

\* a DELETE that has not completed skips rows another transaction removed
DropFromSnapshots(reqs, r, j, gone) ==
  [q \in AgentsReqs |->
     IF q # r /\ reqs[q].pc = "deleting" /\ reqs[q].jobId = j
       THEN [reqs[q] EXCEPT !.del = @ \ gone]
       ELSE reqs[q]]

\* COMMIT; res.json('Agents assigned successfully')
AgentsCommit(r) ==
  LET req == agentsReq[r]
  IN /\ req.pc = "updated"
     /\ job_assignments' = CommittedAssignments(job_assignments, req)
     /\ jobs' = [jobs EXCEPT ![req.jobId].status = "in_progress"]
     /\ agentsReq' = [DropFromSnapshots(agentsReq, r, req.jobId, req.del)
                        EXCEPT ![r] = [pc |-> "done", res |-> Ok, reason |-> "ok"]]
     /\ UNCHANGED <<payments, nonJobVars>>

\* a statement of the transaction throws for another reason (any database
\* error): catch { ROLLBACK; throw }, outer catch answers 500
AgentsFail(r) ==
  /\ agentsReq[r].pc \in AgentsInTx
  /\ agentsReq' = [agentsReq EXCEPT ![r] = Failed(agentsReq[r], "error")]
  /\ UNCHANGED <<jobs, job_assignments, payments, nonJobVars>>

AgentsRespond(r) ==
  /\ agentsReq[r].pc = "done"
  /\ agentsReq' = [agentsReq EXCEPT ![r] = IdleReq]
  /\ UNCHANGED <<jobs, job_assignments, payments, nonJobVars>>

\* INSERT ... VALUES ($1, $2, 'interested') ON CONFLICT (job_id, agent_id)
\* DO UPDATE SET status = 'interested'
UpsertInterested(rows, j, a) ==
  {x \in rows : ~(x.job_id = j /\ x.agent_id = a)}
  \cup {[job_id |-> j, agent_id |-> a, status |-> "interested"]}

\* DELETE FROM job_assignments WHERE job_id = $1 AND agent_id = $2 AND status = 'interested'
DeleteInterested(rows, j, a) ==
  {x \in rows : ~(x.job_id = j /\ x.agent_id = a /\ x.status = "interested")}

\* POST /preferences (routes/matching.js) of agent a, one autocommitted
\* statement; jobId must name a job (foreign key), else 500 and no change
Preferences(a, j, interested) ==
  /\ j \in DOMAIN jobs
  /\ ~RowLockedByOther(j, a, 0)
  /\ IF interested
       THEN /\ ~KeyPendingByOther(j, a, 0)
            /\ job_assignments' = UpsertInterested(job_assignments, j, a)
            /\ UNCHANGED agentsReq
       ELSE /\ job_assignments' = DeleteInterested(job_assignments, j, a)
            /\ agentsReq' =
                 DropFromSnapshots(agentsReq, 0, j,
                   {x.agent_id : x \in job_assignments \ job_assignments'})
  /\ UNCHANGED <<jobs, payments, nonJobVars>>

\* the empty database after createTables(), no request in flight
Init ==
  /\ jobs = << >>
  /\ job_assignments = {}
  /\ payments = << >>
  /\ agentsReq = [r \in AgentsReqs |-> IdleReq]
  /\ fleet_vehicles = << >>
  /\ vehicle_assignments = << >>
  /\ assignReq = [r \in AssignReqs |-> IdleReq]
  /\ returnReq = [r \in ReturnReqs |-> IdleReq]
  /\ InitComplianceVars
  /\ InitAuthVars
  /\ InitRestVars

\* the job life cycle: every handler that writes jobs
NextStatus ==
  \/ \E c \in Clients, n \in 1..MaxNeeded : CreateJob(c, n, <<10, 14>>)
  \/ \E c \in Clients, j \in 1..MaxJobs, p \in PPOs \cup Agents : AssignPpo(c, j, p)
  \/ \E u \in Clients \cup PPOs, j \in 1..MaxJobs, st \in JobStatus : UpdateStatus(u, j, st)
  \/ \E c \in Clients, j \in 1..MaxJobs : CreateIntent(c, j)
  \/ \E i \in 1..MaxPayments : WebhookSucceeded(i, 1)
  \/ \E i \in 1..MaxPayments : WebhookFailed(i)
  \/ \E r \in AgentsReqs, p \in PPOs, j \in 1..MaxJobs, L \in AgentLists : AgentsCheck(r, p, j, L)
  \/ \E r \in AgentsReqs : AgentsDelete(r)
  \/ \E r \in AgentsReqs : AgentsInsert(r)
  \/ \E r \in AgentsReqs : AgentsUpdate(r)
  \/ \E r \in AgentsReqs : AgentsCommit(r)
  \/ \E r \in AgentsReqs : AgentsFail(r)
  \/ \E r \in AgentsReqs : AgentsRespond(r)

SpecStatus == Init /\ [][NextStatus]_vars

\* the jobs of the two PPOs, posted and given to them (CreateJob, AssignPpo),
\* with overlapping windows; no other request in flight
InitAgents ==
  /\ jobs = FleetJobs
  /\ job_assignments = {}
  /\ payments = << >>
  /\ agentsReq = [r \in AgentsReqs |-> IdleReq]
  /\ fleet_vehicles = << >>
  /\ vehicle_assignments = << >>
  /\ assignReq = [r \in AssignReqs |-> IdleReq]
  /\ returnReq = [r \in ReturnReqs |-> IdleReq]
  /\ InitComplianceVars
  /\ InitAuthVars
  /\ InitRestVars

\* the handlers that write job_assignments
NextAgents ==
  \/ \E r \in AgentsReqs, p \in PPOs, j \in DOMAIN jobs, L \in AgentLists : AgentsCheck(r, p, j, L)
  \/ \E r \in AgentsReqs : AgentsDelete(r)
  \/ \E r \in AgentsReqs : AgentsInsert(r)
  \/ \E r \in AgentsReqs : AgentsUpdate(r)
  \/ \E r \in AgentsReqs : AgentsCommit(r)
  \/ \E r \in AgentsReqs : AgentsFail(r)
  \/ \E r \in AgentsReqs : AgentsRespond(r)
  \/ \E a \in Agents, j \in DOMAIN jobs, b \in BOOLEAN : Preferences(a, j, b)

SpecAgents == InitAgents /\ [][NextAgents]_vars

\* the agent declines an assignment: the row's status goes from 'assigned'
\* to 'declined' (one UPDATE; no handler of the routers writes 'declined',
\* the transition is the one the data model describes)
DeclineAssignment(a, j) ==
  /\ [job_id |-> j, agent_id |-> a, status |-> "assigned"] \in job_assignments
  /\ ~RowLockedByOther(j, a, 0)
  /\ job_assignments' =
       (job_assignments \ {[job_id |-> j, agent_id |-> a, status |-> "assigned"]})
         \cup {[job_id |-> j, agent_id |-> a, status |-> "declined"]}
  /\ UNCHANGED <<jobs, payments, agentsReq, nonJobVars>>

\* assignments that are made, declined and made again: assign-agents (one
\* request at a time), the decline and the agents' preferences
NextDecline ==
  \/ \E p \in PPOs, j \in DOMAIN jobs, L \in AgentLists : AgentsCheck(1, p, j, L)
  \/ AgentsDelete(1)
  \/ AgentsInsert(1)
  \/ AgentsUpdate(1)
  \/ AgentsCommit(1)
  \/ AgentsFail(1)
  \/ AgentsRespond(1)
  \/ \E a \in Agents, j \in DOMAIN jobs : DeclineAssignment(a, j)
  \/ \E a \in Agents, j \in DOMAIN jobs, b \in BOOLEAN : Preferences(a, j, b)

SpecDecline == InitAgents /\ [][NextDecline]_vars

\* --------------------------------------------------------------- matching
\* u.id NOT IN (SELECT agent_id FROM job_assignments
\*              WHERE job_id = $1 AND status NOT IN ('declined', 'no_show'))
\* mutant: the subquery without its status test (as in GET /jobs)
LinkedAgentsAnyStatus(j) ==
  {x.agent_id : x \in {y \in job_assignments : y.job_id = j}}

LinkedAgents(j) ==
  {x.agent_id : x \in {y \in job_assignments :
                          y.job_id = j /\ y.status \notin {"declined", "no_show"}}}

\* mutant: the window test with <= and >=
BusyDuringInclusive(a, j) ==
  \E x \in job_assignments :
    /\ x.agent_id = a
    /\ jobs[x.job_id].start_date <= jobs[j].end_date
    /\ jobs[x.job_id].end_date >= jobs[j].start_date
    /\ x.status \in {"assigned", "accepted"}

\* EXISTS (SELECT 1 FROM job_assignments ja2 JOIN jobs j2 ON ja2.job_id = j2.id
\*         WHERE ja2.agent_id = u.id AND j2.start_date < $7 AND j2.end_date > $6
\*         AND ja2.status IN ('assigned', 'accepted'))
\* with $6, $7 the start_date and end_date of the target job
BusyDuring(a, j) ==
  \E x \in job_assignments :
    /\ x.agent_id = a
    /\ jobs[x.job_id].start_date < jobs[j].end_date
    /\ jobs[x.job_id].end_date > jobs[j].start_date
    /\ x.status \in {"assigned", "accepted"}

\* users JOIN agent_profiles WHERE user_type = 'agent' AND
\* background_check_status = 'approved' (is_active is never written)
ApprovedAgents ==
  {a \in Agents : \E x \in agent_profiles :
                     x.user_id = a /\ x.background_check_status = "approved"}

\* the rows of the find-agents query for target job j
MatchingAgents(j) ==
  {a \in ApprovedAgents : a \notin LinkedAgents(j) /\ ~BusyDuring(a, j)}

\* the status of the response of GET /agents/:jobId for caller u
FindAgentsCode(u, j) ==
  IF j \notin DOMAIN jobs THEN NotFound
  ELSE IF user_type(u) = "client" /\ jobs[j].client_id # u THEN Forbidden
  ELSE IF user_type(u) = "ppo" /\ jobs[j].ppo_id # u THEN Forbidden
  ELSE Ok

\* GET /agents/:jobId by a client or PPO
FindAgents(u, j) ==
  /\ user_type(u) \in {"ppo", "client"}
  /\ found' = [user |-> u, jobId |-> j, res |-> FindAgentsCode(u, j),
               agents |-> IF FindAgentsCode(u, j) = Ok THEN MatchingAgents(j) ELSE {}]
  /\ UNCHANGED <<jobVars, fleetVars, complianceVars, authVars, otherVars>>

\* jobs X [10,14), Y [13,15), Z [14,16) of client c1, given to PPO p1
MatchJobs ==
  << [client_id |-> "c1", ppo_id |-> "p1", status |-> "assigned",
      agents_needed |-> 2, start_date |-> 10, end_date |-> 14],
     [client_id |-> "c1", ppo_id |-> "p1", status |-> "assigned",
      agents_needed |-> 2, start_date |-> 13, end_date |-> 15],
     [client_id |-> "c1", ppo_id |-> "p1", status |-> "assigned",
      agents_needed |-> 2, start_date |-> 14, end_date |-> 16] >>

\* job_assignments rows on the jobs js: any agent, any status of the schema
\* or 'interested' (POST /preferences)
AssignmentRows(js) ==
  [job_id : js, agent_id : Agents, status : AssignmentStatus \cup {"interested"}]

\* job_assignments tables of at most n rows with UNIQUE(job_id, agent_id)
RECURSIVE AssignmentTables(_, _)
AssignmentTables(js, n) ==
  IF n = 0 THEN {{}}
  ELSE LET smaller == AssignmentTables(js, n - 1)
       IN smaller \cup
          UNION {{T \cup {x} :
                    x \in {y \in AssignmentRows(js) :
                             \A z \in T : ~(z.job_id = y.job_id /\ z.agent_id = y.agent_id)}} :
                  T \in smaller}

\* the query's inputs: the three jobs, any small job_assignments table, any
\* background-check status of the agents
InitMatching ==
  /\ jobs = MatchJobs
  /\ job_assignments \in AssignmentTables(DOMAIN MatchJobs, MaxAssignmentRows)
  /\ payments = << >>
  /\ agentsReq = [r \in AgentsReqs |-> IdleReq]
  /\ fleet_vehicles = << >>
  /\ vehicle_assignments = << >>
  /\ assignReq = [r \in AssignReqs |-> IdleReq]
  /\ returnReq = [r \in ReturnReqs |-> IdleReq]
  /\ compliance_records = << >>
  /\ agent_profiles \in
       {{[user_id |-> a, background_check_status |-> f[a]] : a \in Agents} :
          f \in [Agents -> {"approved", "pending"}]}
  /\ statusReq = [r \in StatusReqs |-> IdleReq]
  /\ bulkReq = [r \in BulkReqs |-> IdleReq]
  /\ found = NoResponse
  /\ InitAuthVars
  /\ InitRestVars

NextMatching ==
  \E u \in Clients \cup PPOs, j \in 1..(Len(MatchJobs) + 1) : FindAgents(u, j)

SpecMatching == InitMatching /\ [][NextMatching]_vars

\* ------------------------------------------------------------------ claims

\* open (unreturned) vehicle_assignments rows of vehicle v
OpenAssignments(v) ==
  {i \in DOMAIN vehicle_assignments :
     vehicle_assignments[i].vehicle_id = v /\ ~vehicle_assignments[i].returned}

\* C1: of two vehicle-assignment requests on the same vehicle that both saw it
\* available and overlap in time, exactly one succeeds and the other is
\* answered with the handler's not-available rejection (database errors apart).
C1_ExactlyOneAssignSucceeds ==
  \A r1 \in AssignReqs, r2 \in AssignReqs :
    ( /\ r1 # r2
      /\ assignReq[r1].pc = "done" /\ assignReq[r2].pc = "done"
      /\ r2 \in assignReq[r1].conc
      /\ assignReq[r1].res # ServerError /\ assignReq[r2].res # ServerError )
    => {assignReq[r1].res, assignReq[r2].res} = {Ok, NotFound}

\* C2: every vehicle has at most one vehicle_assignments row whose
\* returned-at is null.
C2_AtMostOneOpenAssignment ==
  \A v \in DOMAIN fleet_vehicles : Cardinality(OpenAssignments(v)) <= 1

\* C3: in every committed state a vehicle's status is 'assigned' iff it has
\* an open vehicle assignment.
C3_AssignedIffOpenAssignment ==
  \A v \in DOMAIN fleet_vehicles :
    (fleet_vehicles[v].status = "assigned") <=> (OpenAssignments(v) # {})

WindowsOverlap(j1, j2) ==
  /\ jobs[j1].start_date < jobs[j2].end_date
  /\ jobs[j1].end_date > jobs[j2].start_date

Range(q) == {q[i] : i \in DOMAIN q}

OwnTxStep(r) ==
  /\ agentsReq[r].pc \in AgentsInTx
  /\ \/ agentsReq'[r].pc # agentsReq[r].pc
     \/ agentsReq'[r].k # agentsReq[r].k

\* C7: an assign-agents request whose transaction fails at any statement (an
\* insert that violates the unique (job, agent) key included) is answered
\* with a failure, and no step of it, neither the delete nor any insert, ever
\* reaches the committed job_assignments rows or the job's status; a list
\* that names an agent twice never commits.
C7_FailedAssignAgentsCommitsNothing ==
  [][\A r \in AgentsReqs :
       OwnTxStep(r) =>
         /\ ~AgentsCommit(r) => UNCHANGED <<job_assignments, jobs>>
         /\ AgentsCommit(r) =>
              Cardinality(Range(agentsReq[r].agentIds)) = Len(agentsReq[r].agentIds)
         /\ (agentsReq'[r].pc = "done" /\ ~AgentsCommit(r)) =>
              agentsReq'[r].res = ServerError]_vars

\* C7 witness: a request failed on the unique key, after its DELETE had
\* succeeded, while the table holds rows of an earlier assign-agents call
C7_Witness ==
  \E r \in AgentsReqs :
    /\ agentsReq[r].pc = "done"
    /\ agentsReq[r].res = ServerError
    /\ agentsReq[r].reason = "unique"
    /\ \E x \in job_assignments : x.status = "assigned"

\* C8: an assign-agents request by a caller who is not the job's ppo_id is
\* answered NotFound, one whose list is longer than agents_needed is answered
\* with the validation error, and a rejected request changes neither the
\* job's assignments nor its status, then or later.
C8_RejectedAssignAgentsChangesNothing ==
  [][\A r \in AgentsReqs :
       /\ (agentsReq[r].pc = "idle" /\ agentsReq'[r].pc # "idle") =>
          \A p \in PPOs, j \in DOMAIN jobs, L \in AgentLists :
            AgentsCheck(r, p, j, L) =>
              /\ (Len(L) > 0 /\ jobs[j].ppo_id # p) =>
                   (agentsReq'[r].pc = "done" /\ agentsReq'[r].res = NotFound)
              /\ (jobs[j].ppo_id = p /\ Len(L) > jobs[j].agents_needed) =>
                   (agentsReq'[r].pc = "done" /\ agentsReq'[r].res = BadRequest)
              /\ UNCHANGED <<job_assignments, jobs>>
       /\ (agentsReq[r].pc = "done" /\ agentsReq[r].res \in {NotFound, BadRequest}
             /\ agentsReq'[r] # agentsReq[r]) =>
            (agentsReq'[r].pc = "idle" /\ UNCHANGED <<job_assignments, jobs>>)]_vars

\* C8 witness: one request rejected for ownership and one for the length of
\* its list, with committed assignments in the table
C8_Witness ==
  /\ \E r \in AgentsReqs :
       agentsReq[r].pc = "done" /\ agentsReq[r].res = NotFound
       /\ agentsReq[r].reason = "owner"
  /\ \E r \in AgentsReqs :
       agentsReq[r].pc = "done" /\ agentsReq[r].res = BadRequest
       /\ agentsReq[r].reason = "count"
  /\ job_assignments # {}

\* open -> assigned -> in_progress -> completed
StatusRank(st) ==
  CASE st = "open" -> 1
    [] st = "assigned" -> 2
    [] st = "in_progress" -> 3
    [] st = "completed" -> 4
    [] st = "cancelled" -> 5

\* a move the life cycle allows: forward, or to cancelled from a status that
\* is not terminal
ForwardMove(old, new) ==
  \/ new = old
  \/ old \notin {"completed", "cancelled"} /\ new = "cancelled"
  \/ old \notin {"completed", "cancelled"} /\ new # "cancelled"
       /\ StatusRank(new) > StatusRank(old)

\* C9: a job's status only moves forward along open, assigned, in_progress,
\* completed, or to cancelled from a status that is not terminal; it never
\* moves back and never leaves completed or cancelled.
C9_JobStatusForwardOnly ==
  [][\A j \in DOMAIN jobs : ForwardMove(jobs[j].status, jobs'[j].status)]_vars

\* C10: assign-PPO changes a job's ppo_id and status only when the job's
\* status is 'open' and the job belongs to the requesting client and the
\* target user is a ppo.
C10_AssignPpoOnlyWhenOpen ==
  [][\A c \in Clients, j \in DOMAIN jobs, p \in PPOs \cup Agents :
       (AssignPpo(c, j, p) /\ jobs' # jobs) =>
         /\ jobs[j].status = "open"
         /\ jobs[j].client_id = c
         /\ user_type(p) = "ppo"]_vars

\* C11: a vehicle-assignment request for a vehicle that is not available, or
\* for a vehicle or job the calling PPO does not own, fails, inserts no
\* vehicle_assignments row and leaves the vehicle's status unchanged; the
\* not-available case is answered Conflict.
C11_UnavailableVehicleIsConflict ==
  [][\A r \in AssignReqs, p \in PPOs, v \in 1..MaxVehicles, j \in DOMAIN jobs, a \in Agents :
       AssignCheck(r, p, v, j, a) =>
         /\ ~( /\ v \in DOMAIN fleet_vehicles
               /\ fleet_vehicles[v].ppo_id = p
               /\ fleet_vehicles[v].status = "available"
               /\ jobs[j].ppo_id = p ) =>
              /\ assignReq'[r].pc = "done"
              /\ assignReq'[r].res # Ok
              /\ UNCHANGED <<fleet_vehicles, vehicle_assignments>>
         /\ ( /\ v \in DOMAIN fleet_vehicles
              /\ fleet_vehicles[v].ppo_id = p
              /\ fleet_vehicles[v].status # "available" ) =>
              assignReq'[r].res = Conflict]_vars

\* the part of C11 the handler keeps: a request that fails one of the two
\* SELECTs is answered with a failure and writes nothing, then or later
C11_RejectedAssignChangesNothing ==
  [][\A r \in AssignReqs :
       /\ \A p \in PPOs, v \in 1..MaxVehicles, j \in DOMAIN jobs, a \in Agents :
            AssignCheck(r, p, v, j, a) =>
              /\ ~( /\ v \in DOMAIN fleet_vehicles
                    /\ fleet_vehicles[v].ppo_id = p
                    /\ fleet_vehicles[v].status = "available"
                    /\ jobs[j].ppo_id = p ) =>
                   (assignReq'[r].pc = "done" /\ assignReq'[r].res = NotFound)
              /\ UNCHANGED <<fleet_vehicles, vehicle_assignments>>
       /\ (assignReq[r].pc = "done" /\ assignReq[r].res = NotFound
             /\ assignReq'[r].pc # "done") =>
            (assignReq'[r].pc = "idle"
             /\ UNCHANGED <<fleet_vehicles, vehicle_assignments>>)]_vars

\* a step of the transaction of assign request r, or of return request r
AssignTxStep(r) ==
  /\ assignReq[r].pc \in {"begun", "inserted", "updated"}
  /\ assignReq'[r].pc # assignReq[r].pc

ReturnTxStep(r) ==
  /\ returnReq[r].pc \in {"begun", "closed", "updated"}
  /\ returnReq'[r].pc # returnReq[r].pc

\* C12: vehicle assignment and vehicle return are each all-or-nothing: a
\* step of the transaction either leaves vehicle_assignments and
\* fleet_vehicles as they are, or (the commit, answered with success) it
\* adds the row and sets the status 'assigned', respectively closes the row
\* and sets the status 'available'; a failed request changes neither.
C12_FleetTransactionsAllOrNothing ==
  [][/\ \A r \in AssignReqs :
          AssignTxStep(r) =>
            \/ UNCHANGED <<vehicle_assignments, fleet_vehicles>>
            \/ /\ assignReq'[r].pc = "done"
               /\ assignReq'[r].res = Ok
               /\ Len(vehicle_assignments') = Len(vehicle_assignments) + 1
               /\ vehicle_assignments'[Len(vehicle_assignments')].vehicle_id
                    = assignReq[r].vehicleId
               /\ ~vehicle_assignments'[Len(vehicle_assignments')].returned
               /\ fleet_vehicles'[assignReq[r].vehicleId].status = "assigned"
     /\ \A r \in ReturnReqs :
          ReturnTxStep(r) =>
            \/ UNCHANGED <<vehicle_assignments, fleet_vehicles>>
            \/ /\ returnReq'[r].pc = "done"
               /\ returnReq'[r].res = Ok
               /\ vehicle_assignments'[returnReq[r].assignmentId].returned
               /\ fleet_vehicles'[returnReq[r].vehicleId].status = "available"]_vars

\* C12 witness: an assign request failed at its second statement, the
\* UPDATE, after its INSERT had succeeded, and no row was committed
C12_Witness ==
  \E r \in AssignReqs :
    /\ assignReq[r].pc = "done"
    /\ assignReq[r].res = ServerError
    /\ assignReq[r].stmts = 1
    /\ vehicle_assignments = << >>
    /\ fleet_vehicles[assignReq[r].vehicleId].status = "available"

\* the part of C13 the handler keeps, read at the time of its SELECT:
\* a return is admitted only for the PPO that owns the vehicle or the
\* agent of an open assignment of it; when it succeeds that assignment is
\* returned and the vehicle's status is 'available'; any other caller, or a
\* vehicle without an open assignment, is refused, and a refused or failed
\* request leaves assignments and vehicle status unchanged.
C13_ReturnAdmittedOnlyForOwnerOrAgent ==
  [][\A r \in ReturnReqs :
       /\ (returnReq[r].pc = "idle" /\ returnReq'[r].pc # "idle") =>
            \A u \in PPOs \cup Agents, v \in 1..MaxVehicles :
              ReturnCheck(r, u, v) =>
                /\ UNCHANGED <<vehicle_assignments, fleet_vehicles>>
                /\ returnReq'[r].pc = "begun" =>
                     LET i == returnReq'[r].assignmentId
                     IN /\ i \in OpenAssignments(v)
                        /\ \/ fleet_vehicles[v].ppo_id = u
                           \/ vehicle_assignments[i].agent_id = u
                /\ (\A i \in OpenAssignments(v) :
                      /\ fleet_vehicles[v].ppo_id # u
                      /\ vehicle_assignments[i].agent_id # u) =>
                     (returnReq'[r].pc = "done" /\ returnReq'[r].res = NotFound)
       /\ ReturnTxStep(r) =>
            IF returnReq'[r].pc = "done" /\ returnReq'[r].res = Ok
              THEN /\ vehicle_assignments'[returnReq[r].assignmentId].returned
                   /\ fleet_vehicles'[returnReq[r].vehicleId].status = "available"
              ELSE UNCHANGED <<vehicle_assignments, fleet_vehicles>>
       /\ (returnReq[r].pc = "done" /\ returnReq'[r].pc # "done") =>
            UNCHANGED <<vehicle_assignments, fleet_vehicles>>]_vars

\* C13: a return succeeds only for the PPO that owns the vehicle or the agent
\* of an open assignment of it: the assignment it closes is open until the
\* request commits, and the caller is then the vehicle's owner or that
\* assignment's agent; it leaves the assignment returned and the vehicle
\* 'available'.
C13_ReturnOnlyByOwnerOrAgent ==
  [][\A r \in ReturnReqs :
       ReturnCommit(r) =>
         LET i == returnReq[r].assignmentId
             v == returnReq[r].vehicleId
         IN /\ i \in OpenAssignments(v)
            /\ \/ fleet_vehicles[v].ppo_id = returnReq[r].user
               \/ vehicle_assignments[i].agent_id = returnReq[r].user
            /\ vehicle_assignments'[i].returned
            /\ fleet_vehicles'[v].status = "available"]_vars

\* C13 witness: a return by the agent of the open assignment has succeeded
\* and a later return on the same vehicle has been refused
C13_Witness ==
  /\ \E i \in DOMAIN vehicle_assignments : vehicle_assignments[i].returned
  /\ \E r \in ReturnReqs : returnReq[r].pc = "done" /\ returnReq[r].res = NotFound
  /\ \A v \in DOMAIN fleet_vehicles : fleet_vehicles[v].status = "available"

\* background_check_status of the agent_profiles rows of user u
BackgroundCheckStatus(profiles, u) ==
  {x.background_check_status : x \in {y \in profiles : y.user_id = u}}

\* C14: whenever a background_check record is set to a status by the
\* single-record status update or by the bulk update, the committed state
\* after the request (answered or failed) has the owning agent's
\* background_check_status equal to that status.
C14_BackgroundCheckReachesProfile ==
  [][/\ \A r \in StatusReqs :
          (statusReq[r].pc = "written" /\ statusReq'[r].pc = "done") =>
            BackgroundCheckStatus(agent_profiles', statusReq[r].user_id)
              = {statusReq[r].status}
     /\ \A r \in BulkReqs :
          BulkCommit(r) =>
            \A i \in bulkReq[r].rows :
              compliance_records[i].record_type = "background_check" =>
                BackgroundCheckStatus(agent_profiles', compliance_records[i].user_id)
                  = {bulkReq[r].status}]_vars

\* a step of the transaction of bulk request r
BulkTxStep(r) ==
  /\ bulkReq[r].pc \in {"begun", "records"}
  /\ bulkReq'[r] # bulkReq[r]

\* C15: the bulk update is all-or-nothing: its commit leaves every record
\* it names with the new status and every owning agent's profile of a
\* background_check record among them with that status, and no other step
\* of it (the record update, a profile update, a failure at any statement)
\* changes a compliance record or an agent profile; a failed request is
\* answered with a failure.
C15_BulkUpdateAllOrNothing ==
  [][\A r \in BulkReqs :
       BulkTxStep(r) =>
         IF bulkReq'[r].pc = "done" /\ bulkReq'[r].res = Ok
           THEN /\ \A i \in DOMAIN compliance_records :
                     IF i \in bulkReq[r].rows
                       THEN compliance_records'[i].status = bulkReq[r].status
                       ELSE compliance_records'[i] = compliance_records[i]
                /\ \A i \in bulkReq[r].rows :
                     compliance_records[i].record_type = "background_check" =>
                       BackgroundCheckStatus(agent_profiles', compliance_records[i].user_id)
                         = {bulkReq[r].status}
           ELSE /\ UNCHANGED <<compliance_records, agent_profiles>>
                /\ bulkReq'[r].pc = "done" => bulkReq'[r].res = ServerError]_vars

\* C15 witness: a bulk update of the background checks of two agents failed
\* after its record update and one profile update, and both records and
\* both profiles are as before the request
C15_Witness ==
  \E r \in BulkReqs :
    /\ bulkReq[r].pc = "done"
    /\ bulkReq[r].res = ServerError
    /\ Cardinality(bulkReq[r].rows) = 2
    /\ Cardinality(bulkReq[r].profiled) = 1
    /\ \A i \in bulkReq[r].rows :
         /\ compliance_records[i].record_type = "background_check"
         /\ compliance_records[i].status = "pending"
    /\ \A x \in agent_profiles : x.background_check_status = "pending"

\* a committed bulk update of two background checks to 'approved' with both
\* profiles 'approved'
C15_CommittedBulk ==
  \E r \in BulkReqs :
    /\ bulkReq[r].pc = "done"
    /\ bulkReq[r].res = Ok
    /\ Cardinality(bulkReq[r].profiled) = 2
    /\ \A x \in agent_profiles : x.background_check_status = "approved"

\* the agent has an 'assigned' or 'accepted' row on another job whose window
\* overlaps the window of job j
HasOverlappingAssignment(a, j) ==
  \E x \in job_assignments :
    /\ x.agent_id = a
    /\ x.job_id # j
    /\ x.status \in {"assigned", "accepted"}
    /\ WindowsOverlap(x.job_id, j)

\* the agent has a row on job j whose status is neither declined nor no_show
LinkedTo(a, j) ==
  \E x \in job_assignments :
    x.agent_id = a /\ x.job_id = j /\ x.status \notin {"declined", "no_show"}

\* C16: among the agents the other rules of find-agents leave (approved,
\* not linked to the target job), the result for a target job holds an
\* agent iff the agent has no 'assigned' or 'accepted' row on another job
\* whose window overlaps the target's; an assignment on [10,14) excludes the
\* agent for the target [13,15) and does not for the target [14,16).
C16_AvailabilityFilter ==
  found.res = Ok =>
    /\ \A a \in ApprovedAgents :
         ~LinkedTo(a, found.jobId) =>
           (a \in found.agents <=> ~HasOverlappingAssignment(a, found.jobId))
    /\ \A a \in ApprovedAgents :
         ( /\ \E x \in job_assignments :
                x.agent_id = a /\ x.job_id = 1 /\ x.status = "accepted"
           /\ \A x \in job_assignments : x.agent_id = a => x.job_id = 1 ) =>
           /\ found.jobId = 2 => a \notin found.agents
           /\ found.jobId = 3 => a \in found.agents

\* C16 witness: an agent with an accepted assignment on job X [10,14) is in
\* the result for job Z [14,16)
C16_Witness ==
  /\ found.res = Ok
  /\ found.jobId = 3
  /\ \E a \in found.agents :
       \E x \in job_assignments :
         x.agent_id = a /\ x.job_id = 1 /\ x.status = "accepted"

\* C17: an agent with a row on the target job whose status is neither
\* declined nor no_show is never in the find-agents result for that job, and
\* a declined or no_show row on the target job does not remove an agent the
\* other rules keep.
C17_LinkedAgentsExcluded ==
  found.res = Ok =>
    \A a \in Agents :
      /\ LinkedTo(a, found.jobId) => a \notin found.agents
      /\ ( /\ \E x \in job_assignments :
                 /\ x.agent_id = a /\ x.job_id = found.jobId
                 /\ x.status \in {"declined", "no_show"}
            /\ a \in ApprovedAgents
            /\ ~HasOverlappingAssignment(a, found.jobId) ) =>
          a \in found.agents

\* C17 witness: the result for a job holds an agent who declined that job
\* and leaves out an agent who is assigned to it
C17_Witness ==
  /\ found.res = Ok
  /\ \E a \in found.agents :
       \E x \in job_assignments :
         x.agent_id = a /\ x.job_id = found.jobId /\ x.status = "declined"
  /\ \E a \in ApprovedAgents \ found.agents :
       \E x \in job_assignments :
         x.agent_id = a /\ x.job_id = found.jobId /\ x.status = "assigned"

\* C19: a caller who does not own a job gets from find-agents the answer the
\* handler gives for a job id that names no job.
C19_NotOwnedLooksLikeMissing ==
  [][\A u \in Clients \cup PPOs, j \in DOMAIN jobs :
       ( /\ FindAgents(u, j)
         /\ jobs[j].client_id # u
         /\ jobs[j].ppo_id # u ) =>
         found'.res = FindAgentsCode(u, Len(jobs) + 1)]_vars

ProfilesOf(u) ==
  {<<"agent", x>> : x \in {y \in agent_profiles : y.user_id = u}}
    \cup {<<"ppo", x>> : x \in {y \in ppo_profiles : y = u}}
    \cup {<<"client", x>> : x \in {y \in client_profiles : y = u}}

\* C20: every user whose registration has ended (answered, or failed) has
\* exactly one profile row, of the kind matching the user's role.
C20_OneProfilePerUser ==
  \A x \in users :
    (\A r \in RegisterReqs :
       ~(registerReq[r].pc = "user" /\ registerReq[r].id = x.id)) =>
      /\ Cardinality(ProfilesOf(x.id)) = 1
      /\ \A p \in ProfilesOf(x.id) : p[1] = user_type(x.id)


\* ---------------------------------------------------------------------------
\* socket events (server.js)

\* what a client may put in a job_update message
JobUpdateData == [jobId : 1..MaxJobs, newStatus : JobStatus]

\* socket.on('job_update', data): io.to(data.jobId).emit('job_status_update',
\* data), the server relays what the client sent
JobUpdate(data) ==
  /\ Cardinality(emitted \cup {data}) <= MaxEmitted
  /\ emitted' = emitted \cup {data}
  /\ UNCHANGED <<jobVars, fleetVars, complianceVars, found, authVars, scoreVars, messageVars,
                 profileVars>>

\* the assignment workflow (assign-ppo, assign-agents, PUT status) next to the
\* socket relay
NextEvents ==
  \/ \E c \in Clients, n \in 1..MaxNeeded : CreateJob(c, n, <<10, 14>>)
  \/ \E c \in Clients, j \in 1..MaxJobs, p \in PPOs \cup Agents : AssignPpo(c, j, p)
  \/ \E u \in Clients \cup PPOs, j \in 1..MaxJobs, st \in JobStatus : UpdateStatus(u, j, st)
  \/ \E p \in PPOs, j \in 1..MaxJobs, L \in AgentLists : AgentsCheck(1, p, j, L)
  \/ AgentsDelete(1)
  \/ AgentsInsert(1)
  \/ AgentsUpdate(1)
  \/ AgentsCommit(1)
  \/ AgentsFail(1)
  \/ AgentsRespond(1)
  \/ \E data \in JobUpdateData : JobUpdate(data)

SpecEvents == Init /\ [][NextEvents]_vars

\* C21: every job status transition made by the assignment workflow (assign
\* PPO, assign agents, status update) is followed by the emission of a
\* job_status_update event carrying the job's id and its new status: when
\* the handler that writes the status has answered, the event is among the
\* events sent.
C21_TransitionEmitsJobStatusUpdate ==
  [][\A j \in DOMAIN jobs :
       jobs'[j].status # jobs[j].status
         => [jobId |-> j, newStatus |-> jobs'[j].status] \in emitted']_vars


\* ---------------------------------------------------------------------------
\* match scores (routes/matching.js)

\* coordinates in hundredths of a degree: O = (0, 0), A = (0, 0.09), B = (1, 0)
Lats == {0, 100}
Lngs == {0, 9}

\* 6371 * acos(cos(radians(lat1)) * cos(radians(lat2)) * cos(radians(lng2) -
\* radians(lng1)) + sin(radians(lat1)) * sin(radians(lat2))) on the points of
\* Lats x Lngs, in kilometres rounded to the nearest integer: 0.09 degrees of
\* longitude are 10 km at these latitudes, one degree of latitude is 111 km
DistanceKm(lat1, lng1, lat2, lng2) ==
  IF lat1 = lat2
    THEN IF lng1 = lng2 THEN 0 ELSE 10
    ELSE IF lng1 = lng2 THEN 111 ELSE 112

Least(a, b) == IF a <= b THEN a ELSE b

\* the distance CASE of both queries: row is the scored row (the job for GET
\* /jobs, the agent profile for GET /agents/:jobId), lat and lng are $2, $3
DistanceScore(row, lat, lng) ==
  IF row.location_lat # SqlNull /\ row.location_lng # SqlNull
    THEN 50 - Least(50, DistanceKm(lat, lng, row.location_lat[1], row.location_lng[1]))
    ELSE 0

\* mutant: the rate thresholds of GET /jobs exclusive
JobsRateScoreExclusive(job, rate) ==
  IF job.hourly_rate = SqlNull THEN 0
  ELSE IF job.hourly_rate[1] > rate THEN 30
  ELSE IF 10 * job.hourly_rate[1] > 8 * rate THEN 20
  ELSE IF 10 * job.hourly_rate[1] > 6 * rate THEN 10
  ELSE 0

\* GET /jobs: CASE WHEN j.hourly_rate >= $4 THEN 30 WHEN j.hourly_rate >=
\* ($4 * 0.8) THEN 20 WHEN j.hourly_rate >= ($4 * 0.6) THEN 10 ELSE 0; a
\* comparison with NULL is not true
JobsRateScore(job, rate) ==
  IF job.hourly_rate = SqlNull THEN 0
  ELSE IF job.hourly_rate[1] >= rate THEN 30
  ELSE IF 10 * job.hourly_rate[1] >= 8 * rate THEN 20
  ELSE IF 10 * job.hourly_rate[1] >= 6 * rate THEN 10
  ELSE 0

\* GET /agents/:jobId: CASE WHEN ap.hourly_rate <= $4 THEN 30 WHEN
\* ap.hourly_rate <= ($4 * 1.2) THEN 20 WHEN ap.hourly_rate <= ($4 * 1.5) THEN
\* 10 ELSE 0, $4 = job.hourly_rate
AgentsRateScore(agent, rate) ==
  IF agent.hourly_rate = SqlNull \/ rate = SqlNull THEN 0
  ELSE IF agent.hourly_rate[1] <= rate[1] THEN 30
  ELSE IF 10 * agent.hourly_rate[1] <= 12 * rate[1] THEN 20
  ELSE IF 10 * agent.hourly_rate[1] <= 15 * rate[1] THEN 10
  ELSE 0

\* mutant: a job that requires nothing scores as a job whose requirements
\* nobody meets
CertificationScoreNoDefault(required, certs) ==
  IF required = SqlNull \/ certs = SqlNull THEN 0
  ELSE IF required[1] \cap certs[1] # {} THEN 40
  ELSE 0

\* the certification CASE of both queries: required is the job's array, certs
\* the agent's (array_length of an empty array is NULL; && with NULL is not
\* true)
CertificationScore(required, certs) ==
  IF required = SqlNull THEN 20
  ELSE IF required[1] = {} THEN 20
  ELSE IF certs = SqlNull THEN 0
  ELSE IF required[1] \cap certs[1] # {} THEN 40
  ELSE 0

\* mutant: no bonus for a job of low urgency
UrgencyBonusNoFloor(job) ==
  IF job.urgency_level = "urgent" THEN 20
  ELSE IF job.urgency_level = "high" THEN 15
  ELSE IF job.urgency_level = "normal" THEN 10
  ELSE 0

\* CASE j.urgency_level WHEN 'urgent' THEN 20 WHEN 'high' THEN 15 WHEN
\* 'normal' THEN 10 ELSE 5
UrgencyBonus(job) ==
  IF job.urgency_level = "urgent" THEN 20
  ELSE IF job.urgency_level = "high" THEN 15
  ELSE IF job.urgency_level = "normal" THEN 10
  ELSE 5

\* the experience CASE of both queries; years is nullable in GET
\* /agents/:jobId (ap.experience_years)
ExperienceBonus(years) ==
  IF years = SqlNull THEN 0
  ELSE IF years[1] >= 5 THEN 15
  ELSE IF years[1] >= 2 THEN 10
  ELSE IF years[1] >= 1 THEN 5
  ELSE 0

\* rating in tenths: CASE WHEN ap.rating >= 4.5 THEN 20 WHEN ap.rating >= 4.0
\* THEN 15 WHEN ap.rating >= 3.5 THEN 10 ELSE 0
RatingBonus(agent) ==
  IF agent.rating = SqlNull THEN 0
  ELSE IF agent.rating[1] >= 45 THEN 20
  ELSE IF agent.rating[1] >= 40 THEN 15
  ELSE IF agent.rating[1] >= 35 THEN 10
  ELSE 0

\* CASE ap.availability_status WHEN 'available' THEN 20 WHEN 'busy' THEN 5
\* ELSE 0
AvailabilityBonus(agent) ==
  IF agent.availability_status = "available" THEN 20
  ELSE IF agent.availability_status = "busy" THEN 5
  ELSE 0

\* the params of GET /jobs: q is the request's lat and lng
FindJobsParams(agent, q) ==
  [lat |-> OrElse(q.lat, OrElse(agent.location_lat, 0)),
   lng |-> OrElse(q.lng, OrElse(agent.location_lng, 0)),
   rate |-> OrElse(agent.hourly_rate, 0),
   certs |-> Some(OrElse(agent.certifications, {})),
   years |-> Some(OrElse(agent.experience_years, 0))]

\* match_score of GET /jobs
JobsMatchScore(job, P) ==
  100 + DistanceScore(job, P.lat, P.lng) + JobsRateScore(job, P.rate)
    + CertificationScore(job.required_certifications, P.certs)
    + UrgencyBonus(job) + ExperienceBonus(P.years)

\* the distance the reasons of GET /jobs compute again, from the request's
\* lat and lng
ReasonDistance(job, q) ==
  DistanceKm(q.lat[1], q.lng[1], job.location_lat[1], job.location_lng[1])

\* match_reasons of GET /jobs (hourly_rate compared as numbers)
JobsMatchReasons(job, agent, q) ==
  (IF JobsMatchScore(job, FindJobsParams(agent, q)) >= 150
     THEN {"High overall match"} ELSE {})
  \cup (IF job.hourly_rate # SqlNull
           /\ job.hourly_rate[1] >= OrElse(agent.hourly_rate, 0)
          THEN {"Good pay rate"} ELSE {})
  \cup (IF job.required_certifications # SqlNull /\ agent.certifications # SqlNull
           /\ job.required_certifications[1] \cap agent.certifications[1] # {}
          THEN {"Certification match"} ELSE {})
  \cup (IF job.urgency_level = "urgent" THEN {"Urgent job"} ELSE {})
  \cup (IF q.lat # SqlNull /\ q.lng # SqlNull
           /\ job.location_lat # SqlNull /\ job.location_lng # SqlNull
          THEN IF ReasonDistance(job, q) <= 10 THEN {"Very close location"}
               ELSE IF ReasonDistance(job, q) <= 25 THEN {"Close location"}
               ELSE {}
          ELSE {})

\* AND (6371 * acos(...)) <= radius, added when the request has lat and lng
\* (radius = 50 by default)
WithinRadius(job, q) ==
  \/ q.lat = SqlNull
  \/ q.lng = SqlNull
  \/ /\ job.location_lat # SqlNull
     /\ job.location_lng # SqlNull
     /\ ReasonDistance(job, q) <= 50

\* GET /jobs of the agent of scoreAgent, with lat and lng of q: scoreJob is
\* an open job of the future that the agent is not linked to
FindJobs(q) ==
  /\ matched' =
       [direction |-> "jobs", query |-> q,
        rows |-> IF WithinRadius(scoreJob, q)
                   THEN {[match_score |-> JobsMatchScore(scoreJob, FindJobsParams(scoreAgent, q)),
                          match_reasons |-> JobsMatchReasons(scoreJob, scoreAgent, q)]}
                   ELSE {}]
  /\ UNCHANGED <<jobVars, fleetVars, complianceVars, found, authVars, socketVars,
                 messageVars, profileVars, scoreJob, scoreAgent>>

\* the params of GET /agents/:jobId that the score reads
FindAgentsParams(job) ==
  [lat |-> OrElse(job.location_lat, 0),
   lng |-> OrElse(job.location_lng, 0),
   rate |-> job.hourly_rate,
   certs |-> job.required_certifications]

\* match_score of GET /agents/:jobId
AgentsMatchScore(agent, P) ==
  100 + DistanceScore(agent, P.lat, P.lng) + AgentsRateScore(agent, P.rate)
    + CertificationScore(P.certs, agent.certifications)
    + RatingBonus(agent) + ExperienceBonus(agent.experience_years)
    + AvailabilityBonus(agent)

\* match_reasons of GET /agents/:jobId (hourly_rate compared as numbers)
AgentsMatchReasons(agent, job) ==
  (IF AgentsMatchScore(agent, FindAgentsParams(job)) >= 150
     THEN {"Excellent match"} ELSE {})
  \cup (IF agent.rating # SqlNull /\ agent.rating[1] >= 45 THEN {"Top rated"} ELSE {})
  \cup (IF agent.hourly_rate # SqlNull /\ job.hourly_rate # SqlNull
           /\ agent.hourly_rate[1] <= job.hourly_rate[1]
          THEN {"Rate compatible"} ELSE {})
  \cup (IF job.required_certifications # SqlNull /\ agent.certifications # SqlNull
           /\ job.required_certifications[1] \subseteq agent.certifications[1]
          THEN {"All certifications match"} ELSE {})
  \cup (IF agent.availability_status = "available" THEN {"Currently available"} ELSE {})
  \cup (IF agent.experience_years # SqlNull /\ agent.experience_years[1] >= 5
          THEN {"Highly experienced"} ELSE {})

\* GET /agents/:jobId of the owner of scoreJob: scoreAgent is an approved
\* agent, free in the job's window and not linked to the job
FindAgentsScored ==
  /\ matched' =
       [direction |-> "agents",
        rows |-> {[match_score |-> AgentsMatchScore(scoreAgent, FindAgentsParams(scoreJob)),
                   match_reasons |-> AgentsMatchReasons(scoreAgent, scoreJob)]}]
  /\ UNCHANGED <<jobVars, fleetVars, complianceVars, found, authVars, socketVars,
                 messageVars, profileVars, scoreJob, scoreAgent>>

Nullable(S) == {SqlNull} \cup {Some(x) : x \in S}

\* the jobs scored: with and without a point, a rate and requirements
ScoreJobs ==
  {[location_lat |-> p.lat, location_lng |-> p.lng, hourly_rate |-> r,
    required_certifications |-> c, urgency_level |-> u] :
     p \in {[lat |-> SqlNull, lng |-> SqlNull], [lat |-> Some(0), lng |-> Some(9)],
            [lat |-> Some(100), lng |-> Some(0)]},
     r \in Nullable({59, 60, 80, 100, 150}),
     c \in Nullable({{}, {"CPR"}}),
     u \in {"low", "normal", "high", "urgent"}}

\* rating (tenths) and availability_status of the agents scored
AgentStanding ==
  {[rating |-> Some(46), availability_status |-> "available"],
   [rating |-> Some(40), availability_status |-> "busy"],
   [rating |-> SqlNull, availability_status |-> "offline"]}

\* the agent profiles scored
ScoreAgents ==
  {[location_lat |-> p.lat, location_lng |-> p.lng, hourly_rate |-> r,
    certifications |-> c, experience_years |-> y, rating |-> s.rating,
    availability_status |-> s.availability_status] :
     p \in {[lat |-> SqlNull, lng |-> SqlNull], [lat |-> Some(0), lng |-> Some(0)],
            [lat |-> Some(0), lng |-> Some(9)]},
     r \in Nullable({100, 120, 140}),
     c \in Nullable({{"Security License"}, {"CPR", "Security License"}}),
     y \in Nullable({1, 2, 5, 6}),
     s \in AgentStanding}

\* the request's lat and lng: absent, or the point A
JobsQueries == {[lat |-> SqlNull, lng |-> SqlNull], [lat |-> Some(0), lng |-> Some(9)]}

InitScore ==
  /\ jobs = << >>
  /\ job_assignments = {}
  /\ payments = << >>
  /\ agentsReq = [r \in AgentsReqs |-> IdleReq]
  /\ fleet_vehicles = << >>
  /\ vehicle_assignments = << >>
  /\ assignReq = [r \in AssignReqs |-> IdleReq]
  /\ returnReq = [r \in ReturnReqs |-> IdleReq]
  /\ InitComplianceVars
  /\ InitAuthVars
  /\ InitSocketVars
  /\ InitMessageVars
  /\ InitProfileVars
  /\ scoreJob \in ScoreJobs
  /\ scoreAgent \in ScoreAgents
  /\ matched = NoMatch

NextScore ==
  \/ \E q \in JobsQueries : FindJobs(q)
  \/ FindAgentsScored

SpecScore == InitScore /\ [][NextScore]_vars



\* ---------------------------------------------------------------------------
\* messages (routes/messages.js)

\* the users who write to each other, and the job scopes of their messages
MsgUsers == {"c1", "p1", "a1"}
MsgScopes == {SqlNull, Some(1)}

\* the row of POST /: is_read DEFAULT FALSE; created_at follows the id
NewMessage(i, u, recipientId, jobId) ==
  [id |-> i, sender_id |-> u, recipient_id |-> recipientId, job_id |-> jobId,
   is_read |-> FALSE]

\* POST /: the recipient is a user, the job (if any) exists
SendMessage(u, recipientId, jobId) ==
  /\ messageSeq < MaxMessages
  /\ \E x \in users : x.id = recipientId
  /\ IF jobId = SqlNull THEN TRUE ELSE jobId[1] \in DOMAIN jobs
  /\ messages' = messages \cup {NewMessage(messageSeq + 1, u, recipientId, jobId)}
  /\ messageSeq' = messageSeq + 1
  /\ conversations' = NoList
  /\ UNCHANGED <<jobVars, fleetVars, complianceVars, found, authVars, socketVars,
                 scoreVars, profileVars, conversationReq>>

\* CASE WHEN m.sender_id = $1 THEN m.recipient_id ELSE m.sender_id END
OtherUser(m, u) == IF m.sender_id = u THEN m.recipient_id ELSE m.sender_id

\* m2.job_id = m.job_id OR (m2.job_id IS NULL AND m.job_id IS NULL)
SameScope(a, b) ==
  \/ a = SqlNull /\ b = SqlNull
  \/ a # SqlNull /\ b # SqlNull /\ a[1] = b[1]

\* the messages u and other exchanged
Exchanged(u, other) ==
  {m \in messages :
     \/ m.sender_id = u /\ m.recipient_id = other
     \/ m.recipient_id = u /\ m.sender_id = other}

\* the lateral subquery latest: ORDER BY created_at DESC LIMIT 1
Latest(u, m) ==
  LET S == {m2 \in Exchanged(u, OtherUser(m, u)) : SameScope(m2.job_id, m.job_id)}
  IN CHOOSE m2 \in S : \A x \in S : x.id <= m2.id

\* mutant: the unread count taken over every job scope of the counterpart
UnreadAnyScope(u, m) ==
  Cardinality({m3 \in messages :
     /\ m3.recipient_id = u
     /\ m3.sender_id = OtherUser(m, u)
     /\ ~m3.is_read})

\* the lateral subquery unread: COUNT(*)
Unread(u, m) ==
  Cardinality({m3 \in messages :
     /\ m3.recipient_id = u
     /\ m3.sender_id = OtherUser(m, u)
     /\ ~m3.is_read
     /\ SameScope(m3.job_id, m.job_id)})

\* the row GET /conversations computes for message m (last_message is the
\* latest message's id)
ConversationRow(u, m) ==
  [other_user_id |-> OtherUser(m, u), job_id |-> m.job_id,
   last_message |-> Latest(u, m).id, unread_count |-> Unread(u, m)]

\* SELECT DISTINCT ... WHERE m.sender_id = $1 OR m.recipient_id = $1
ConversationRows(u) ==
  {ConversationRow(u, m) : m \in {x \in messages : x.sender_id = u \/ x.recipient_id = u}}

\* GET /conversations
Conversations(u) ==
  /\ conversations' = [user |-> u, rows |-> ConversationRows(u)]
  /\ UNCHANGED <<jobVars, fleetVars, complianceVars, found, authVars, socketVars,
                 scoreVars, profileVars, messages, messageSeq, conversationReq>>

\* PUT /mark-read: every message of the sender to the caller, of one job if
\* jobId is given
MarkRead(u, senderId, jobId) ==
  /\ messages' =
       {IF /\ m.recipient_id = u
           /\ m.sender_id = senderId
           /\ jobId = SqlNull \/ (m.job_id # SqlNull /\ m.job_id[1] = jobId[1])
          THEN [m EXCEPT !.is_read = TRUE] ELSE m : m \in messages}
  /\ conversations' = NoList
  /\ UNCHANGED <<jobVars, fleetVars, complianceVars, found, authVars, socketVars,
                 scoreVars, profileVars, messageSeq, conversationReq>>

\* DELETE /:id: the sender's own message
DeleteMessage(u, i) ==
  /\ \E m \in messages : m.id = i /\ m.sender_id = u
  /\ messages' = {m \in messages : ~(m.id = i /\ m.sender_id = u)}
  /\ conversations' = NoList
  /\ UNCHANGED <<jobVars, fleetVars, complianceVars, found, authVars, socketVars,
                 scoreVars, profileVars, messageSeq, conversationReq>>

\* ids in descending order (ORDER BY m.created_at DESC)
RECURSIVE DescSeq(_)
DescSeq(S) ==
  IF S = {} THEN << >>
  ELSE LET top == CHOOSE x \in S : \A y \in S : y <= x
       IN <<top>> \o DescSeq(S \ {top})

\* result.rows.reverse()
Reverse(q) == [i \in 1..Len(q) |-> q[Len(q) + 1 - i]]

\* the SELECT of GET /conversation/:userId: the ids of the page, oldest first
Page(u, other, jobId, limit, offset) ==
  LET S == {m.id : m \in {x \in Exchanged(u, other) :
                            jobId = SqlNull
                              \/ (x.job_id # SqlNull /\ x.job_id[1] = jobId[1])}}
      D == DescSeq(S)
  IN Reverse(SubSeq(D, offset + 1, Least(Len(D), offset + limit)))

\* GET /conversation/:userId up to the end of its SELECT
ConversationSelect(r, u, other, jobId, limit, offset) ==
  /\ conversationReq[r].pc = "idle"
  /\ conversationReq' = [conversationReq EXCEPT ![r] =
       [pc |-> "marking", user |-> u, other |-> other, jobId |-> jobId,
        rows |-> Page(u, other, jobId, limit, offset)]]
  /\ conversations' = NoList
  /\ UNCHANGED <<jobVars, fleetVars, complianceVars, found, authVars, socketVars,
                 scoreVars, profileVars, messages, messageSeq>>

\* mutant: only the messages of the job the request names are marked
MarkConversationReadInScope(req) ==
  {IF /\ m.recipient_id = req.user
      /\ m.sender_id = req.other
      /\ req.jobId = SqlNull \/ (m.job_id # SqlNull /\ m.job_id[1] = req.jobId[1])
     THEN [m EXCEPT !.is_read = TRUE] ELSE m : m \in messages}

\* UPDATE messages SET is_read = true WHERE recipient_id = $1 AND sender_id
\* = $2 AND is_read = false
MarkConversationRead(req) ==
  {IF m.recipient_id = req.user /\ m.sender_id = req.other
     THEN [m EXCEPT !.is_read = TRUE] ELSE m : m \in messages}

\* the UPDATE of GET /conversation/:userId, then res.json({ messages })
ConversationUpdate(r) ==
  /\ conversationReq[r].pc = "marking"
  /\ messages' = MarkConversationRead(conversationReq[r])
  /\ conversationReq' = [conversationReq EXCEPT ![r].pc = "done"]
  /\ UNCHANGED <<jobVars, fleetVars, complianceVars, found, authVars, socketVars,
                 scoreVars, profileVars, messageSeq, conversations>>

ConversationRespond(r) ==
  /\ conversationReq[r].pc = "done"
  /\ conversationReq' = [conversationReq EXCEPT ![r] = IdleReq]
  /\ UNCHANGED <<jobVars, fleetVars, complianceVars, found, authVars, socketVars,
                 scoreVars, profileVars, messages, messageSeq, conversations>>

\* the jobs the messages are about exist; nothing sent yet
InitMessages ==
  /\ jobs = FleetJobs
  /\ job_assignments = {}
  /\ payments = << >>
  /\ agentsReq = [r \in AgentsReqs |-> IdleReq]
  /\ fleet_vehicles = << >>
  /\ vehicle_assignments = << >>
  /\ assignReq = [r \in AssignReqs |-> IdleReq]
  /\ returnReq = [r \in ReturnReqs |-> IdleReq]
  /\ InitComplianceVars
  /\ InitAuthVars
  /\ InitRestVars

\* the conversation list next to the handlers that write messages
NextConversations ==
  \/ \E u \in MsgUsers, v \in MsgUsers, j \in MsgScopes : SendMessage(u, v, j)
  \/ \E u \in MsgUsers, v \in MsgUsers, j \in MsgScopes : MarkRead(u, v, j)
  \/ \E u \in MsgUsers, i \in 1..MaxMessages : DeleteMessage(u, i)
  \/ \E u \in MsgUsers : Conversations(u)

SpecConversations == InitMessages /\ [][NextConversations]_vars

\* limit and offset of GET /conversation/:userId
Limits == {1, 50}
Offsets == {0, 1}

\* conversations read while messages between different users arrive
NextConversation ==
  \/ \E u \in MsgUsers : \E v \in MsgUsers \ {u}, j \in MsgScopes : SendMessage(u, v, j)
  \/ \E r \in ConversationReqs, u \in MsgUsers :
       \E v \in MsgUsers \ {u}, j \in MsgScopes, l \in Limits, o \in Offsets :
         ConversationSelect(r, u, v, j, l, o)
  \/ \E r \in ConversationReqs : ConversationUpdate(r)
  \/ \E r \in ConversationReqs : ConversationRespond(r)

SpecConversation == InitMessages /\ [][NextConversation]_vars


\* ---------------------------------------------------------------------------
\* PUT /profile (routes/users.js) and the connection pool

\* the profile table of the caller's user_type
ProfileTable(u) ==
  IF user_type(u) = "agent" THEN "agent_profiles"
  ELSE IF user_type(u) = "ppo" THEN "ppo_profiles"
  ELSE "client_profiles"

\* the rows of user u that a transaction on some other client than c holds
RowsLockedByOther(u, c) ==
  UNION {pgClients[d].locks :
           d \in {e \in PoolClients \ {c} :
                    pgClients[e].st = "leased" /\ pgClients[e].user = u}}

\* pool.connect() gives a free client (the request waits while there is
\* none); BEGIN
ProfileConnect(r, u) ==
  /\ profileReq[r].pc = "idle"
  /\ \A q \in ProfileReqs : q < r => profileReq[q].pc # "idle"
  /\ \E c \in PoolClients :
       /\ pgClients[c] = FreeClient
       /\ \A d \in PoolClients : d < c => pgClients[d] # FreeClient
       /\ pgClients' = [pgClients EXCEPT ![c] =
            [st |-> "leased", tx |-> TRUE, user |-> u, locks |-> {}]]
       /\ profileReq' = [profileReq EXCEPT ![r] =
            [pc |-> "begun", user |-> u, client |-> c]]
  /\ UNCHANGED <<jobVars, fleetVars, complianceVars, found, authVars, socketVars,
                 scoreVars, messageVars>>

\* UPDATE users SET first_name = ... WHERE id = $5: waits for the row, then
\* holds it until the transaction ends (the columns written are none the
\* other handlers read)
ProfileUpdateUser(r) ==
  LET req == profileReq[r]
  IN /\ req.pc = "begun"
     /\ "users" \notin RowsLockedByOther(req.user, req.client)
     /\ pgClients' = [pgClients EXCEPT ![req.client].locks = @ \cup {"users"}]
     /\ profileReq' = [profileReq EXCEPT ![r].pc = "user"]
     /\ UNCHANGED <<jobVars, fleetVars, complianceVars, found, authVars, socketVars,
                    scoreVars, messageVars>>

\* UPDATE agent_profiles / ppo_profiles / client_profiles SET ... WHERE
\* user_id = $n
ProfileUpdateProfile(r) ==
  LET req == profileReq[r]
  IN /\ req.pc = "user"
     /\ ProfileTable(req.user) \notin RowsLockedByOther(req.user, req.client)
     /\ pgClients' = [pgClients EXCEPT ![req.client].locks =
                        @ \cup {ProfileTable(req.user)}]
     /\ profileReq' = [profileReq EXCEPT ![r].pc = "profile"]
     /\ UNCHANGED <<jobVars, fleetVars, complianceVars, found, authVars, socketVars,
                    scoreVars, messageVars>>

\* COMMIT; client.release(); res.json('Profile updated successfully')
ProfileCommit(r) ==
  LET req == profileReq[r]
  IN /\ req.pc = "profile"
     /\ pgClients' = [pgClients EXCEPT ![req.client] = FreeClient]
     /\ profileReq' = [profileReq EXCEPT ![r] =
          [pc |-> "done", res |-> Ok, client |-> req.client]]
     /\ UNCHANGED <<jobVars, fleetVars, complianceVars, found, authVars, socketVars,
                    scoreVars, messageVars>>

\* a statement after BEGIN throws (any database error): the handler's only
\* catch answers 500; the client stays checked out, its transaction open
ProfileFail(r) ==
  LET req == profileReq[r]
  IN /\ req.pc \in {"begun", "user", "profile"}
     /\ profileReq' = [profileReq EXCEPT ![r] =
          [pc |-> "done", res |-> ServerError, client |-> req.client]]
     /\ UNCHANGED <<jobVars, fleetVars, complianceVars, found, authVars, socketVars,
                    scoreVars, messageVars, pgClients>>

ProfileRespond(r) ==
  /\ profileReq[r].pc = "done"
  /\ profileReq' = [profileReq EXCEPT ![r] = IdleReq]
  /\ UNCHANGED <<jobVars, fleetVars, complianceVars, found, authVars, socketVars,
                 scoreVars, messageVars, pgClients>>

\* the users who update their profiles
ProfileUsers == {"a1", "p1", "c1"}

NextProfile ==
  \/ \E r \in ProfileReqs, u \in ProfileUsers : ProfileConnect(r, u)
  \/ \E r \in ProfileReqs : ProfileUpdateUser(r)
  \/ \E r \in ProfileReqs : ProfileUpdateProfile(r)
  \/ \E r \in ProfileReqs : ProfileCommit(r)
  \/ \E r \in ProfileReqs : ProfileFail(r)
  \/ \E r \in ProfileReqs : ProfileRespond(r)

SpecProfile == Init /\ [][NextProfile]_vars


\* ---------------------------------------------------------------------------
\* payment webhooks (routes/payments.js)

\* the times of the deliveries
Times == 1..MaxTime

\* jobs and their payments next to the deliveries of the payment events
NextWebhook ==
  \/ \E c \in Clients, n \in 1..MaxNeeded : CreateJob(c, n, <<10, 14>>)
  \/ \E c \in Clients, j \in 1..MaxJobs, p \in PPOs : AssignPpo(c, j, p)
  \/ \E u \in Clients \cup PPOs, j \in 1..MaxJobs, st \in JobStatus : UpdateStatus(u, j, st)
  \/ \E c \in Clients, j \in 1..MaxJobs : CreateIntent(c, j)
  \/ \E i \in 1..MaxPayments, now \in Times : WebhookSucceeded(i, now)
  \/ \E i \in 1..MaxPayments : WebhookFailed(i)

SpecWebhook == Init /\ [][NextWebhook]_vars

\* ---------------------------------------------------------------------------
\* claims on scores, messages

\* the parameters GET /jobs scores scoreJob with in the answered request
AnsweredParams == FindJobsParams(scoreAgent, matched.query)

\* the urgency and experience components as the scoring rules state them
StatedUrgency(u) ==
  CASE u = "urgent" -> 20 [] u = "high" -> 15 [] u = "normal" -> 10 [] u = "low" -> 5

StatedExperience(y) ==
  IF y >= 5 THEN 15 ELSE IF y >= 2 THEN 10 ELSE IF y >= 1 THEN 5 ELSE 0

\* the example: a job without coordinates, rate 150, requiring CPR, urgent;
\* an agent asking 140, holding CPR and Security License, 6 years
ExampleJob ==
  /\ scoreJob.location_lat = SqlNull
  /\ scoreJob.location_lng = SqlNull
  /\ scoreJob.hourly_rate = Some(150)
  /\ scoreJob.required_certifications = Some({"CPR"})
  /\ scoreJob.urgency_level = "urgent"

ExampleAgent ==
  /\ scoreAgent.hourly_rate = Some(140)
  /\ scoreAgent.certifications = Some({"CPR", "Security License"})
  /\ scoreAgent.experience_years = Some(6)

\* C22: the score find-jobs-for-agent gives a job is 100 + distance + rate +
\* certification + urgency (urgent 20, high 15, normal 10, low 5) +
\* experience (5 years or more 15, 2 or more 10, 1 or more 5, else 0); the
\* example job and agent score 205 and the reasons include "High overall
\* match", "Certification match" and "Urgent job".
C22_FindJobsScore ==
  matched.direction = "jobs" =>
    \A row \in matched.rows :
      /\ row.match_score =
           100 + DistanceScore(scoreJob, AnsweredParams.lat, AnsweredParams.lng)
             + JobsRateScore(scoreJob, AnsweredParams.rate)
             + CertificationScore(scoreJob.required_certifications, AnsweredParams.certs)
             + StatedUrgency(scoreJob.urgency_level)
             + StatedExperience(OrElse(scoreAgent.experience_years, 0))
      /\ ExampleJob /\ ExampleAgent =>
           /\ row.match_score = 205
           /\ {"High overall match", "Certification match", "Urgent job"}
                \subseteq row.match_reasons

\* the example has been scored
C22_Witness ==
  /\ matched.direction = "jobs"
  /\ ExampleJob
  /\ ExampleAgent
  /\ \E row \in matched.rows : row.match_score = 205


\* the row has a geographic point
HasPoint(row) == row.location_lat # SqlNull /\ row.location_lng # SqlNull

\* the parameters GET /agents/:jobId scores scoreAgent with
JobParams == FindAgentsParams(scoreJob)

\* C23: in both directions the distance component is 0 whenever the job or
\* the agent has no geographic point (for find-jobs the agent's point is the
\* request's lat and lng or, without them, the profile's).
C23_NoPointNoDistance ==
  /\ /\ matched.direction = "jobs"
     /\ \/ ~HasPoint(scoreJob)
        \/ ~HasPoint(scoreAgent) /\ ~HasPoint([location_lat |-> matched.query.lat,
                                               location_lng |-> matched.query.lng])
     => \A row \in matched.rows :
          row.match_score =
            100 + 0 + JobsRateScore(scoreJob, AnsweredParams.rate)
              + CertificationScore(scoreJob.required_certifications, AnsweredParams.certs)
              + UrgencyBonus(scoreJob) + ExperienceBonus(AnsweredParams.years)
  /\ /\ matched.direction = "agents"
     /\ ~HasPoint(scoreJob) \/ ~HasPoint(scoreAgent)
     => \A row \in matched.rows :
          row.match_score =
            100 + 0 + AgentsRateScore(scoreAgent, JobParams.rate)
              + CertificationScore(JobParams.certs, scoreAgent.certifications)
              + RatingBonus(scoreAgent) + ExperienceBonus(scoreAgent.experience_years)
              + AvailabilityBonus(scoreAgent)

\* the certification component as the scoring rules state it
StatedCertification(required, certs) ==
  IF required = SqlNull \/ required = Some({}) THEN 20
  ELSE IF required[1] \cap OrElse(certs, {}) # {} THEN 40
  ELSE 0

\* C24: in both directions the certification component is exactly 20 when
\* the job's required set is null or empty, whatever the agent's
\* certifications (none included); otherwise it is 40 if the agent holds at
\* least one required certification and 0 if none.
C24_CertificationComponent ==
  /\ matched.direction = "jobs" =>
       \A row \in matched.rows :
         row.match_score =
           100 + DistanceScore(scoreJob, AnsweredParams.lat, AnsweredParams.lng)
             + JobsRateScore(scoreJob, AnsweredParams.rate)
             + StatedCertification(scoreJob.required_certifications,
                                   scoreAgent.certifications)
             + UrgencyBonus(scoreJob) + ExperienceBonus(AnsweredParams.years)
  /\ matched.direction = "agents" =>
       \A row \in matched.rows :
         row.match_score =
           100 + DistanceScore(scoreAgent, JobParams.lat, JobParams.lng)
             + AgentsRateScore(scoreAgent, JobParams.rate)
             + StatedCertification(scoreJob.required_certifications,
                                   scoreAgent.certifications)
             + RatingBonus(scoreAgent) + ExperienceBonus(scoreAgent.experience_years)
             + AvailabilityBonus(scoreAgent)

\* an agent without certifications has been scored for a job that requires
\* none (an empty array)
C24_Witness ==
  /\ matched.direction = "agents"
  /\ matched.rows # {}
  /\ scoreJob.required_certifications = Some({})
  /\ scoreAgent.certifications = SqlNull

\* the rate components as the scoring rules state them, for an agent asking
\* a and a job offering j
StatedAgentsRate(a, j) ==
  IF a <= j THEN 30 ELSE IF 10 * a <= 12 * j THEN 20 ELSE IF 10 * a <= 15 * j THEN 10 ELSE 0

StatedJobsRate(a, j) ==
  IF j >= a THEN 30 ELSE IF 10 * j >= 8 * a THEN 20 ELSE IF 10 * j >= 6 * a THEN 10 ELSE 0

\* both rows have a rate
RatesKnown == scoreJob.hourly_rate # SqlNull /\ scoreAgent.hourly_rate # SqlNull

ConversationPairs(u) ==
  {<<OtherUser(m, u), m.job_id>> :
     m \in {x \in messages : x.sender_id = u \/ x.recipient_id = u}}

\* the unread messages from counterpart other to u in job scope j
UnreadFrom(other, u, j) ==
  {m \in messages :
     m.sender_id = other /\ m.recipient_id = u /\ ~m.is_read /\ m.job_id = j}

\* C26: the conversation list has exactly one row per distinct (counterpart,
\* job scope) pair among the messages the user sent or received, the null
\* job scope being one scope, and each row's unread count is the number of
\* unread messages from that counterpart to the user in that job scope.
C26_ConversationList ==
  conversations.user # NULL =>
    /\ \A pr \in ConversationPairs(conversations.user) :
         Cardinality({row \in conversations.rows :
                        row.other_user_id = pr[1] /\ row.job_id = pr[2]}) = 1
    /\ \A row \in conversations.rows :
         /\ <<row.other_user_id, row.job_id>> \in ConversationPairs(conversations.user)
         /\ row.unread_count =
              Cardinality(UnreadFrom(row.other_user_id, conversations.user, row.job_id))

\* a list with two rows for one counterpart, one per job scope, one of them
\* with two unread messages
C26_Witness ==
  /\ conversations.user # NULL
  /\ \E r1 \in conversations.rows, r2 \in conversations.rows :
       /\ r1.other_user_id = r2.other_user_id
       /\ r1.job_id # r2.job_id
       /\ r1.unread_count = 2

\* a step in which request r runs its UPDATE
ConversationMarked(r) ==
  /\ conversationReq[r].pc = "marking"
  /\ conversationReq'[r].pc = "done"

\* C30: after GET /conversation/:userId (with or without a jobId filter, any
\* limit and offset) every message from that other user to the caller is
\* marked read, messages of other job scopes and messages outside the page
\* included; messages from other senders and the caller's own messages keep
\* their read flag.
C30_ConversationMarksAllRead ==
  [][\A r \in ConversationReqs :
       ConversationMarked(r) =>
         /\ {m.id : m \in messages'} = {m.id : m \in messages}
         /\ \A m \in messages' :
              m.sender_id = conversationReq[r].other
                /\ m.recipient_id = conversationReq[r].user => m.is_read
         /\ \A m \in messages :
              ~(m.sender_id = conversationReq[r].other
                  /\ m.recipient_id = conversationReq[r].user) => m \in messages']_vars

\* a request for one job's page of one message has answered; a message of
\* the other user in another scope, outside the page, is read, and a third
\* user's message to the caller is still unread
C30_Witness ==
  \E r \in ConversationReqs :
    /\ conversationReq[r].pc = "done"
    /\ conversationReq[r].jobId # SqlNull
    /\ Len(conversationReq[r].rows) = 1
    /\ \E m \in messages :
         /\ m.sender_id = conversationReq[r].other
         /\ m.recipient_id = conversationReq[r].user
         /\ m.job_id = SqlNull
         /\ m.is_read
    /\ \E m \in messages :
         /\ m.sender_id # conversationReq[r].other
         /\ m.recipient_id = conversationReq[r].user
         /\ ~m.is_read


\* assign-agents requests alone, two at a time
NextRace ==
  \/ \E r \in AgentsReqs, p \in PPOs, j \in DOMAIN jobs, L \in AgentLists : AgentsCheck(r, p, j, L)
  \/ \E r \in AgentsReqs : AgentsDelete(r)
  \/ \E r \in AgentsReqs : AgentsInsert(r)
  \/ \E r \in AgentsReqs : AgentsUpdate(r)
  \/ \E r \in AgentsReqs : AgentsCommit(r)
  \/ \E r \in AgentsReqs : AgentsFail(r)
  \/ \E r \in AgentsReqs : AgentsRespond(r)

SpecRace == InitAgents /\ [][NextRace]_vars

\* the agents of the committed rows of job j
CommittedAgents(rows, j) == {x.agent_id : x \in {y \in rows : y.job_id = j}}

ProfileAnswers(r) ==
  /\ profileReq[r].pc \in {"begun", "user", "profile"}
  /\ profileReq'[r].pc = "done"

\* C28: every handler that checks out a connection (assign agents, vehicle
\* assign, vehicle return, bulk compliance update, profile update) ends its
\* transaction with COMMIT or ROLLBACK and releases the connection exactly
\* once on every path, statement failure included: when the profile update
\* answers, its client is back in the pool with no transaction open.
C28_ClientReleasedOnEveryPath ==
  [][\A r \in ProfileReqs :
       ProfileAnswers(r) => pgClients'[profileReq[r].client] = FreeClient]_vars


\* C29: the payment-succeeded webhook sets the matching payment to
\* 'completed' and changes the job's status only from 'open' to 'assigned',
\* a job in any other status keeps it; delivering the same event a second
\* time (at the same or a later time) leaves the state equal to the state
\* after the first delivery.
C29_WebhookSucceededIdempotent ==
  [][\A i \in 1..MaxPayments, now \in Times :
       WebhookSucceeded(i, now) =>
         /\ payments'[i].status = "completed"
         /\ jobs'[payments[i].job_id].status =
              IF jobs[payments[i].job_id].status = "open" THEN "assigned"
              ELSE jobs[payments[i].job_id].status
         /\ \A j \in DOMAIN jobs : j # payments[i].job_id => jobs'[j] = jobs[j]
         /\ \A later \in {t \in Times : t >= now} :
              /\ SucceededPayments(payments', i, later) = payments'
              /\ SucceededJobs(jobs', payments', i) = jobs']_vars

====
